---------------------------- MODULE Spec2Model ----------------------------
(***************************************************************************)
(* A model of pytmx's "mason" TMX loader (src/pytmx/mason.py) and of the   *)
(* document model it builds (src/pytmx/dc.py).                             *)
(*                                                                         *)
(* Python values.  TLC's integers are 32-bit signed, so an unsigned 32-bit *)
(* gid is a Word: a function from bit position to bit.  A value that may   *)
(* be None is a tagged record (None, PyInt(n), PyList(s)); a dict is a     *)
(* function whose DOMAIN is the keys present.  A call's outcome is         *)
(* Return(v) or Raise(exception name).                                     *)
(***************************************************************************)
EXTENDS Integers, Sequences, FiniteSets, TLC

VARIABLES
    call,   \* the call being made: the function's name and its arguments
    ret,    \* what that call returned or raised
    pc,     \* "ready" before a call has run, "returned" after; "parsing"
            \* while load_tmx runs, "raised" once it has failed
    map,    \* the Map the queries are made on
    context, \* the Context of the load
    frames, \* the iter_tmx calls that are running
    started, \* how many elements the load has started
    element, \* the event iter_tmx handled last, and the element it is of
    viewer  \* the viewer application: its SimpleTest, where run is, and
            \* the events pygame holds for it

vars == <<call, ret, pc, map, context, frames, started, element, viewer>>

\* the state of a load, which the library functions and the queries leave alone
loader == <<context, frames, started, element>>

-----------------------------------------------------------------------------
(* Bounds of the model *)

MaxBaseGid == 3       \* base gids 0..MaxBaseGid, and as many below each edge
MaxSheet == 5         \* sheet width and height 0..MaxSheet
MaxTileSize == 2      \* tile width and height 1..MaxTileSize
MaxMargin == 2        \* margin and spacing 0..MaxMargin
MaxDataLen == 8       \* decoded layer payloads of 0..MaxDataLen bytes
MaxTextLen == 3       \* csv texts of 0..MaxTextLen characters
MaxGids == 6          \* flat gid lists of 0..MaxGids elements
MaxWidth == 3         \* reshape widths 1..MaxWidth
MaxLayers == 2        \* a queried map has 0..MaxLayers layers
MaxTilesets == 2      \* a queried map has 0..MaxTilesets tilesets
MaxCoord == 2         \* queried coordinates and layer indexes -1..MaxCoord
MaxElems == 4         \* a load starts at most MaxElems elements, over all files
MaxDepth == 4         \* a file has at most MaxDepth elements open at once
MaxFiles == 2         \* the map file and MaxFiles - 1 external tilesets inside it

-----------------------------------------------------------------------------
(* Python values *)

None == [t |-> "NoneType"]
PyInt(n) == [t |-> "int", v |-> n]
PyList(s) == [t |-> "list", items |-> s]

\* an optional string is a string; this one stands for None
NoStr == "<None>"

\* the truth value Python gives an optional string
Truthy(s) == s \notin {NoStr, ""}

Return(v) == [ok |-> TRUE, val |-> v]
Raise(e, arg) == [ok |-> FALSE, exc |-> e, arg |-> arg]

\* range(start, stop, step) for step > 0, as the sequence it iterates
range(start, stop, step) ==
    LET n == IF stop > start THEN (stop - start + step - 1) \div step ELSE 0
    IN  [k \in 1..n |-> start + (k - 1) * step]

\* itertools.product(A, B): the pairs <<a, b>>, the last component fastest
product(A, B) ==
    [k \in 1..(Len(A) * Len(B)) |->
        <<A[((k - 1) \div Len(B)) + 1], B[((k - 1) % Len(B)) + 1]>>]

\* s[lo:hi] of a sequence, 0-based and clipped as Python clips a slice
Slice(s, lo, hi) ==
    LET h == IF hi > Len(s) THEN Len(s) ELSE hi
    IN  IF h <= lo THEN <<>> ELSE [k \in 1..(h - lo) |-> s[lo + k]]

-----------------------------------------------------------------------------
(* 32-bit words *)

WordBits == 32

BitPos == 0..(WordBits - 1)

\* 1 << k
Shl1(k) == [i \in BitPos |-> IF i = k THEN 1 ELSE 0]

BitAnd(a, b) == [i \in BitPos |-> a[i] * b[i]]

BitOr(a, b) == [i \in BitPos |-> IF a[i] + b[i] > 0 THEN 1 ELSE 0]

\* ~a, on the 32 bits a word has
BitNot(a) == [i \in BitPos |-> 1 - a[i]]

\* the word of a number 0 <= n < 2^31
ToWord(n) == [i \in BitPos |-> IF i = WordBits - 1 THEN 0 ELSE (n \div (2 ^ i)) % 2]

RECURSIVE BitsValue(_, _, _)
\* the number whose binary digits are bits lo..hi of w (lo the least significant)
BitsValue(w, lo, hi) ==
    IF hi < lo THEN 0 ELSE w[lo] + 2 * BitsValue(w, lo + 1, hi)

\* the number of a word whose bit 31 is clear
WordToNat(w) == BitsValue(w, 0, WordBits - 2)

-----------------------------------------------------------------------------
(* decode_gid *)

GID_TRANS_FLIPX == Shl1(31)
GID_TRANS_FLIPY == Shl1(30)
GID_TRANS_ROT == Shl1(29)

TileFlags(horizontal, vertical, diagonal) ==
    [horizontal |-> horizontal, vertical |-> vertical, diagonal |-> diagonal]

\* decode_gid with the rotation bit left in the gid: a faulty variant
decode_gid_keeps_rot(raw_gid) ==
    LET flags == TileFlags(BitAnd(raw_gid, GID_TRANS_FLIPX) = GID_TRANS_FLIPX,
                           BitAnd(raw_gid, GID_TRANS_FLIPY) = GID_TRANS_FLIPY,
                           BitAnd(raw_gid, GID_TRANS_ROT) = GID_TRANS_ROT)
        gid == BitAnd(raw_gid, BitNot(BitOr(GID_TRANS_FLIPX, GID_TRANS_FLIPY)))
    IN  <<WordToNat(gid), flags>>

decode_gid(raw_gid) ==
    LET flags == TileFlags(BitAnd(raw_gid, GID_TRANS_FLIPX) = GID_TRANS_FLIPX,
                           BitAnd(raw_gid, GID_TRANS_FLIPY) = GID_TRANS_FLIPY,
                           BitAnd(raw_gid, GID_TRANS_ROT) = GID_TRANS_ROT)
        gid == BitAnd(raw_gid,
                      BitNot(BitOr(GID_TRANS_FLIPX,
                                   BitOr(GID_TRANS_FLIPY, GID_TRANS_ROT))))
    IN  <<WordToNat(gid), flags>>

-----------------------------------------------------------------------------
(* iter_image_tiles *)

\* iter_image_tiles stepping by the tile size alone, the spacing forgotten: a
\* faulty variant
iter_image_tiles_no_spacing(width, height, tilewidth, tileheight, margin, spacing) ==
    product(range(margin, height + margin - tileheight + 1, tileheight),
            range(margin, width + margin - tilewidth + 1, tilewidth))

iter_image_tiles(width, height, tilewidth, tileheight, margin, spacing) ==
    product(range(margin, height + margin - tileheight + 1, tileheight + spacing),
            range(margin, width + margin - tilewidth + 1, tilewidth + spacing))

-----------------------------------------------------------------------------
(* reshape_data *)

\* reshape_data with every row starting one element late: a faulty variant
reshape_data_shifted(gids, width) ==
    [k \in 1..Len(range(0, Len(gids), width)) |->
        Slice(gids, range(0, Len(gids), width)[k] + 1,
                    range(0, Len(gids), width)[k] + 1 + width)]

reshape_data(gids, width) ==
    [k \in 1..Len(range(0, Len(gids), width)) |->
        Slice(gids, range(0, Len(gids), width)[k],
                    range(0, Len(gids), width)[k] + width)]

-----------------------------------------------------------------------------
(* unpack_gids *)

(* The text of a Data element is [kind |-> "chars", chars |-> its            *)
(* characters], or [kind |-> "b64", data |-> the bytes it is the base64 of]. *)
(* A gzip or zlib stream is its header bytes followed by the payload: what   *)
(* the library's decompress undoes, or refuses when the header is not there. *)

GzipHeader == <<31, 139>>
ZlibHeader == <<120, 156>>

b64decode(text) ==
    IF text.kind = "b64" THEN Return(text.data) ELSE Raise("binascii.Error", "")

decompress(header, data, exc) ==
    IF Len(data) >= Len(header) /\ Slice(data, 0, Len(header)) = header
    THEN Return(Slice(data, Len(header), Len(data)))
    ELSE Raise(exc, "")

gzip_decompress(data) == decompress(GzipHeader, data, "gzip.BadGzipFile")

zlib_decompress(data) == decompress(ZlibHeader, data, "zlib.error")

\* struct_unpack_L reading the most significant byte first: a faulty variant
struct_unpack_big_endian(chunk) ==
    IF Len(chunk) # 4 THEN Raise("struct.error", "")
    ELSE Return([j \in BitPos |-> (chunk[4 - (j \div 8)] \div (2 ^ (j % 8))) % 2])

\* struct.Struct("<L").unpack(chunk)[0]: bit j of the word is bit j % 8 of
\* byte j \div 8
struct_unpack_L(chunk) ==
    IF Len(chunk) # 4 THEN Raise("struct.error", "")
    ELSE Return([j \in BitPos |-> (chunk[(j \div 8) + 1] \div (2 ^ (j % 8))) % 2])

\* [f(x) for x in xs], where f returns or raises: the first raise is the outcome
MapOrRaise(results) ==
    IF \E k \in 1..Len(results) : ~results[k].ok
    THEN results[CHOOSE k \in 1..Len(results) :
                    ~results[k].ok /\ \A j \in 1..(k - 1) : results[j].ok]
    ELSE Return(PyList([k \in 1..Len(results) |-> results[k].val]))

RECURSIVE split(_, _)
\* text.split(sep) on a sequence of characters
split(chars, sep) ==
    IF \A k \in 1..Len(chars) : chars[k] # sep THEN <<chars>>
    ELSE LET k == CHOOSE i \in 1..Len(chars) :
                      chars[i] = sep /\ \A j \in 1..(i - 1) : chars[j] # sep
         IN  <<Slice(chars, 0, k - 1)>> \o split(Slice(chars, k, Len(chars)), sep)

DigitValue ==
    [c \in {"0", "1", "2", "3", "4", "5", "6", "7", "8", "9"} |->
        CASE c = "0" -> 0 [] c = "1" -> 1 [] c = "2" -> 2 [] c = "3" -> 3
          [] c = "4" -> 4 [] c = "5" -> 5 [] c = "6" -> 6 [] c = "7" -> 7
          [] c = "8" -> 8 [] c = "9" -> 9]

Whitespace == {" ", "\n"}

RECURSIVE strip(_)
\* str.strip()
strip(chars) ==
    IF chars = <<>> THEN chars
    ELSE IF chars[1] \in Whitespace THEN strip(Tail(chars))
    ELSE IF chars[Len(chars)] \in Whitespace
         THEN strip(Slice(chars, 0, Len(chars) - 1))
    ELSE chars

RECURSIVE DecimalValue(_)
DecimalValue(digits) ==
    IF digits = <<>> THEN 0
    ELSE 10 * DecimalValue(Slice(digits, 0, Len(digits) - 1))
            + DigitValue[digits[Len(digits)]]

\* the number a run of decimal digits and its sign denote, or ValueError
SignedDecimal(digits, negative) ==
    IF digits = <<>> \/ \E k \in 1..Len(digits) : digits[k] \notin DOMAIN DigitValue
    THEN Raise("ValueError", "")
    ELSE Return(IF negative THEN 0 - DecimalValue(digits) ELSE DecimalValue(digits))

\* int of a token without blanks around it
IntOfStripped(t) ==
    IF t # <<>> /\ t[1] = "-" THEN SignedDecimal(Tail(t), TRUE)
    ELSE SignedDecimal(t, FALSE)

\* int(token) for an optionally signed decimal token: the number, or ValueError
int(token) == IntOfStripped(strip(token))

\* float(token), for the tokens of the model, which are whole numbers
float(token) == int(token)

\* an int read from layer data, held as the raw gid it is
AsGid(r) == IF r.ok THEN Return(ToWord(r.val)) ELSE r

\* unpack_gids with the compression label looked at for base64 only after
\* decoding, and not at all for csv, as the source has it
unpack_gids(text, encoding, compression) ==
    IF encoding = "base64" THEN
        LET decoded == b64decode(text)
            data == IF ~decoded.ok THEN decoded
                    ELSE IF compression = "gzip" THEN gzip_decompress(decoded.val)
                    ELSE IF compression = "zlib" THEN zlib_decompress(decoded.val)
                    ELSE IF Truthy(compression) THEN Raise("Exception", compression)
                    ELSE decoded
        IN  IF ~data.ok THEN data
            ELSE MapOrRaise([k \in 1..Len(range(0, Len(data.val), 4)) |->
                    struct_unpack_L(Slice(data.val,
                                          range(0, Len(data.val), 4)[k],
                                          range(0, Len(data.val), 4)[k] + 4))])
    ELSE IF encoding = "csv" THEN
        IF text.kind # "chars" THEN Raise("ValueError", "")
        ELSE MapOrRaise([k \in 1..Len(split(text.chars, ",")) |->
                            AsGid(int(split(text.chars, ",")[k]))])
    ELSE IF Truthy(encoding) THEN Raise("Exception", encoding)
    ELSE Return(None)

-----------------------------------------------------------------------------
(* The document model: the records of dc.py, with the fields the loader and *)
(* the queries read or write.                                                *)

PyFloat(n) == [t |-> "float", v |-> n]

\* the truth value Python gives a number or None
NumTruthy(v) == v.t # "NoneType" /\ v.v # 0

\* obj.name = value, on a field the record has or has not yet
SetAttr(obj, name, value) == (name :> value) @@ obj

Point(x, y) == [kind |-> "Point", x |-> x, y |-> y]

Text == [kind |-> "Text"]

Circle == [kind |-> "Circle"]

Tile(id, gid, image) ==
    [kind |-> "Tile", id |-> id, gid |-> gid, image |-> image, properties |-> None]

Image(source, width, height, trans) ==
    [kind |-> "Image", source |-> source, width |-> width, height |-> height,
     trans |-> trans]

TileLayer(name, data) == [kind |-> "TileLayer", name |-> name, data |-> data]

ObjectGroup(name, objects) ==
    [kind |-> "ObjectGroup", name |-> name, objects |-> objects]

Group(name) == [kind |-> "Group", name |-> name, layers |-> <<>>]

Tileset(firstgid, source, name, tilewidth, tileheight, spacing, margin) ==
    [kind |-> "Tileset", firstgid |-> firstgid, source |-> source, name |-> name,
     tilewidth |-> tilewidth, tileheight |-> tileheight, spacing |-> spacing,
     margin |-> margin, orientation |-> NoStr]

Polygon(points) == [kind |-> "Polygon", points |-> points]

Polyline(points) == [kind |-> "Polyline", points |-> points]

Object(name, x, y, width, height) ==
    [kind |-> "Object", name |-> name, x |-> x, y |-> y, width |-> width,
     height |-> height, image |-> None, shapes |-> <<>>]

Property(name, type, value) ==
    [kind |-> "Property", name |-> name, type |-> type, value |-> value]

ImageLayer(name, image) == [kind |-> "ImageLayer", name |-> name, image |-> image]

\* Map(width=...): no layers, no tilesets, no images, no properties
Map(width) ==
    [kind |-> "Map", width |-> width, layers |-> <<>>, tilesets |-> <<>>,
     images |-> <<>>, properties |-> <<>>]

\* add_layer putting the layer in front of the others: a faulty variant
add_layer_in_front(self, layer) == [self EXCEPT !.layers = <<layer>> \o @]

\* Map.add_layer
add_layer(self, layer) == [self EXCEPT !.layers = Append(@, layer)]

\* Map.add_tileset, which asserts that it is handed a Tileset
add_tileset(self, tileset) ==
    IF tileset.kind # "Tileset" THEN Raise("AssertionError", "")
    ELSE Return([self EXCEPT !.tilesets = Append(@, tileset)])

\* an argument of a query: an int, a str or None
PyStr(s) == [t |-> "str", s |-> s]

\* v >= 0 as Python evaluates it: a TypeError for a value that is no number
GreaterEqualZero(v) ==
    IF v.t = "int" THEN Return(v.v >= 0) ELSE Raise("TypeError", "")

\* seq[i] of a list and an int i >= 0
Subscript(seq, i) ==
    IF i.v < Len(seq) THEN Return(seq[i.v + 1]) ELSE Raise("IndexError", "")

\* Map.get_tile_gid
get_tile_gid(self, x, y, layer) ==
    LET cx == GreaterEqualZero(x)
        cy == GreaterEqualZero(y)
        cl == GreaterEqualZero(layer)
        \* assert x >= 0 and y >= 0 and layer >= 0, left to right: the first
        \* false operand fails the assertion, a non-number raises TypeError
        asserted ==
            IF ~cx.ok \/ ~cx.val THEN FALSE
            ELSE IF ~cy.ok \/ ~cy.val THEN FALSE
            ELSE cl.ok /\ cl.val
    IN  IF ~asserted THEN Raise("ValueError", "must be non-negative")
        ELSE LET l == Subscript(self.layers, layer)
             IN  IF ~l.ok THEN Raise("ValueError", "Layer not found")
                 ELSE IF "data" \notin DOMAIN l.val
                      THEN Raise("AttributeError", "data")
                 ELSE IF l.val.data.t # "list" THEN Raise("TypeError", "")
                 ELSE LET row == Subscript(l.val.data.items, y)
                          cell == IF row.ok THEN Subscript(row.val, x) ELSE row
                      IN  IF cell.ok THEN cell
                          ELSE Raise("ValueError", "Tile coordinates are invalid")

\* Map.get_tileset_from_gid: Map has no tiledgidmap attribute, and dc.py
\* imports no attrgetter
get_tileset_from_gid(self, gid) ==
    IF "tiledgidmap" \notin DOMAIN self THEN Raise("AttributeError", "tiledgidmap")
    ELSE IF gid \notin DOMAIN self.tiledgidmap
         THEN Raise("ValueError", "Tile GID not found")
    ELSE Raise("NameError", "attrgetter")

\* seq[i] as Python subscripts a list with an int of either sign
Index(seq, i) ==
    IF 0 <= i /\ i < Len(seq) THEN Return(seq[i + 1])
    ELSE IF i < 0 /\ 0 - i <= Len(seq) THEN Return(seq[Len(seq) + i + 1])
    ELSE Raise("IndexError", "")

\* a list subscript that takes nothing but a non-negative int: a variant that
\* would refuse what Python accepts
Index_from_zero(seq, i) ==
    IF 0 <= i /\ i < Len(seq) THEN Return(seq[i + 1]) ELSE Raise("IndexError", "")

\* what get_tile_image_by_gid makes of self.images[gid]
ImageOrError(found) ==
    IF found.ok THEN found
    ELSE IF found.exc = "TypeError"
         THEN Raise("TypeError", "GIDs must be expressed as a number")
    ELSE Raise("ValueError", "GID not found")

\* Map.get_tile_image_by_gid; gid is any value, an int only if tagged as one
get_tile_image_by_gid(self, gid) ==
    IF "t" \in DOMAIN gid /\ gid.t = "int"
    THEN ImageOrError(Index(self.images, gid.v))
    ELSE ImageOrError(Raise("TypeError", ""))

\* get_tile_image after get_tile_gid returned or raised gid
ImageOfCell(self, gid) ==
    IF gid.ok THEN get_tile_image_by_gid(self, gid.val) ELSE gid

\* Map.get_tile_image
get_tile_image(self, x, y, layer) ==
    ImageOfCell(self, get_tile_gid(self, x, y, layer))

\* Map.objects: the objects of the object groups among the layers, in order
RECURSIVE objects(_)
objects(layers) ==
    IF layers = <<>> THEN <<>>
    ELSE IF Head(layers).kind = "ObjectGroup"
         THEN Head(layers).objects \o objects(Tail(layers))
    ELSE objects(Tail(layers))

\* obj.name == name, for a name that is a str, an int or None
NameIs(obj, name) ==
    IF name = None THEN obj.name = NoStr
    ELSE "s" \in DOMAIN name /\ obj.name # NoStr /\ obj.name = name.s

\* the first of objs with the name, or the ValueError after the loop
FirstNamed(objs, name) ==
    IF \E k \in 1..Len(objs) : NameIs(objs[k], name)
    THEN Return(objs[CHOOSE k \in 1..Len(objs) :
                        /\ NameIs(objs[k], name)
                        /\ \A j \in 1..(k - 1) : ~NameIs(objs[j], name)])
    ELSE Raise("ValueError", "Object not found")

\* Map.get_object_by_name
get_object_by_name(self, name) == FirstNamed(objects(self.layers), name)

\* the truth value Python gives a cell: a Tile, a raw gid or None
CellTruthy(gid) ==
    IF gid = None THEN FALSE
    ELSE IF "t" \in DOMAIN gid THEN NumTruthy(gid)
    ELSE TRUE

\* the inner loop of tiles from column x (from 1) of row y (from 0), with
\* every cell yielded, the empty ones too: a faulty variant
RECURSIVE row_tiles_unfiltered(_, _, _)
row_tiles_unfiltered(row, y, x) ==
    IF x > Len(row) THEN <<>>
    ELSE <<(<<x - 1, y, row[x]>>)>> \o row_tiles_unfiltered(row, y, x + 1)

\* the inner loop of tiles from column x (from 1) of row y (from 0)
RECURSIVE row_tiles(_, _, _)
row_tiles(row, y, x) ==
    IF x > Len(row) THEN <<>>
    ELSE (IF CellTruthy(row[x]) THEN <<(<<x - 1, y, row[x]>>)>> ELSE <<>>)
         \o row_tiles(row, y, x + 1)

\* the outer loop of tiles from row y (from 1)
RECURSIVE grid_tiles(_, _)
grid_tiles(data, y) ==
    IF y > Len(data) THEN <<>>
    ELSE row_tiles(data[y], y - 1, 1) \o grid_tiles(data, y + 1)

\* TileLayer.tiles, as the list of what it yields; data that is no list
\* cannot be enumerated
TileLayer_tiles(self) ==
    IF self.data.t # "list" THEN Raise("TypeError", "")
    ELSE Return(grid_tiles(self.data.items, 1))

-----------------------------------------------------------------------------
(* The loader: start builds an object from a start tag.  An attribute dict  *)
(* is a function from the names present to their texts; a number's text is  *)
(* its sequence of characters, a label's text a string.                      *)

Data(encoding, compression, text) ==
    [kind |-> "Data", encoding |-> encoding, compression |-> compression,
     text |-> text]

Properties(data) == [kind |-> "Properties", data |-> data]

Grid(orientation, width, height) ==
    [kind |-> "Grid", orientation |-> orientation, width |-> width,
     height |-> height]

\* Context, with the fields the handlers read or write; image_loader names
\* the loader load_tmx was given
Context(image_loader, invert_y, tiles, firstgid) ==
    [image_loader |-> image_loader, invert_y |-> invert_y, tiles |-> tiles,
     firstgid |-> firstgid]

Token(type, attrib, text, obj) ==
    [type |-> type, attrib |-> attrib, text |-> text, obj |-> obj]

\* type(value) as a Python number, or the exception type raised
Typed(r, type) == IF r.ok THEN Return([t |-> type, v |-> r.val]) ELSE r

\* getdefault(d)(key, type, default)
get(d, key, type, default) ==
    IF key \notin DOMAIN d THEN Return(default)
    ELSE IF type = "int" THEN Typed(int(d[key]), "int")
    ELSE IF type = "float" THEN Typed(float(d[key]), "float")
    ELSE Return(d[key])

\* a label read with get(key): the string, NoStr where the tag has none
label(attrib, key) == get(attrib, key, "", NoStr).val

start_Data(attrib, text) ==
    Return(Data(label(attrib, "encoding"), label(attrib, "compression"), text))

\* Grid(...), its arguments read from left to right
new_Grid(orientation, width, height) ==
    IF ~width.ok THEN width
    ELSE IF ~height.ok THEN height
    ELSE Return(Grid(orientation, width.val, height.val))

start_Grid(attrib) ==
    new_Grid(label(attrib, "orientation"), get(attrib, "width", "int", None),
             get(attrib, "height", "int", None))

new_Image(source, width, height, trans) ==
    IF ~width.ok THEN width
    ELSE IF ~height.ok THEN height
    ELSE Return(Image(source, width.val, height.val, trans))

start_Image(attrib) ==
    new_Image(label(attrib, "source"), get(attrib, "width", "int", None),
              get(attrib, "height", "int", None), label(attrib, "trans"))

new_Map(width) == IF ~width.ok THEN width ELSE Return(Map(width.val))

start_Map(attrib) == new_Map(get(attrib, "width", "int", None))

\* y += height instead: a faulty variant
inverted_y_adds_height(invert_y, y, height) ==
    IF ~(invert_y /\ NumTruthy(height)) THEN Return(y)
    ELSE IF y.t = "NoneType" THEN Raise("TypeError", "")
    ELSE Return(PyFloat(y.v + height.v))

\* y -= height, where the context inverts and the height is truthy
inverted_y(invert_y, y, height) ==
    IF ~(invert_y /\ NumTruthy(height)) THEN Return(y)
    ELSE IF y.t = "NoneType" THEN Raise("TypeError", "")
    ELSE Return(PyFloat(y.v - height.v))

\* the Object branch of start from "if ctx.invert_y and height" on
new_Object(invert_y, name, x, y, width, height) ==
    IF ~inverted_y(invert_y, y, height).ok THEN inverted_y(invert_y, y, height)
    ELSE IF ~x.ok THEN x
    ELSE IF ~width.ok THEN width
    ELSE Return(Object(name, x.val, inverted_y(invert_y, y, height).val,
                       width.val, height))

\* the Object branch of start after y and height were read
read_Object(ctx, attrib, y, height) ==
    IF ~y.ok THEN y
    ELSE IF ~height.ok THEN height
    ELSE new_Object(ctx.invert_y, label(attrib, "name"),
                    get(attrib, "x", "float", None), y.val,
                    get(attrib, "width", "float", None), height.val)

start_Object(ctx, attrib) ==
    read_Object(ctx, attrib, get(attrib, "y", "float", None),
                get(attrib, "height", "float", None))

new_Point(x, y) ==
    IF ~x.ok THEN x ELSE IF ~y.ok THEN y ELSE Return(Point(x.val, y.val))

start_Point(attrib) ==
    new_Point(get(attrib, "x", "int", None), get(attrib, "y", "int", None))

\* list(...) of what a generator yields, or the exception it raises
ListOf(r) == IF r.ok THEN Return(r.val.items) ELSE r

\* tuple(map(float, pair.split(",")))
PointOf(pair) ==
    ListOf(MapOrRaise([k \in 1..Len(split(pair, ",")) |->
                          float(split(pair, ",")[k])]))

\* the points of text.split(), for a text with single blanks inside
PointsOf(pairs) ==
    ListOf(MapOrRaise([k \in 1..Len(pairs) |-> PointOf(pairs[k])]))

new_Polygon(points) == IF points.ok THEN Return(Polygon(points.val)) ELSE points

start_Polygon(attrib) ==
    IF "points" \notin DOMAIN attrib THEN Raise("AttributeError", "split")
    ELSE new_Polygon(PointsOf(split(strip(attrib.points), " ")))

start_Property(attrib) ==
    IF "name" \notin DOMAIN attrib THEN Raise("KeyError", "name")
    ELSE IF "value" \notin DOMAIN attrib THEN Raise("KeyError", "value")
    ELSE Return(Property(attrib.name, label(attrib, "type"), attrib.value))

new_Tile(id, gid) ==
    IF ~id.ok THEN id
    ELSE IF ~gid.ok THEN gid
    ELSE Return(Tile(id.val, gid.val, None))

start_Tile(attrib) ==
    new_Tile(get(attrib, "id", "int", None), get(attrib, "gid", "int", None))

new_Tileset(firstgid, source, name, tilewidth, tileheight, spacing, margin) ==
    IF ~firstgid.ok THEN firstgid
    ELSE IF ~tilewidth.ok THEN tilewidth
    ELSE IF ~tileheight.ok THEN tileheight
    ELSE IF ~spacing.ok THEN spacing
    ELSE IF ~margin.ok THEN margin
    ELSE Return(Tileset(firstgid.val, source, name, tilewidth.val,
                        tileheight.val, spacing.val, margin.val))

\* the Tileset a Tileset tag without a source builds
start_Tileset(attrib) ==
    new_Tileset(get(attrib, "firstgid", "int", PyInt(0)), label(attrib, "source"),
                label(attrib, "name"), get(attrib, "tilewidth", "int", None),
                get(attrib, "tileheight", "int", None),
                get(attrib, "spacing", "int", PyInt(0)),
                get(attrib, "margin", "int", PyInt(0)))

\* start, for every tag but a Tileset that names a source
start(ctx, name, attrib, text) ==
    IF name = "Data" THEN start_Data(attrib, text)
    ELSE IF name = "Ellipse" THEN Return(Circle)
    ELSE IF name = "Grid" THEN start_Grid(attrib)
    ELSE IF name = "Group" THEN Return(Group(label(attrib, "name")))
    ELSE IF name = "Image" THEN start_Image(attrib)
    ELSE IF name = "Imagelayer"
         THEN Return(ImageLayer(label(attrib, "name"),
                                get(attrib, "image", "", None).val))
    ELSE IF name = "Layer"
         THEN Return(TileLayer(label(attrib, "name"),
                               get(attrib, "data", "", None).val))
    ELSE IF name = "Map" THEN start_Map(attrib)
    ELSE IF name = "Object" THEN start_Object(ctx, attrib)
    ELSE IF name = "Objectgroup"
         THEN Return(ObjectGroup(label(attrib, "name"), <<>>))
    ELSE IF name = "Point" THEN start_Point(attrib)
    ELSE IF name = "Polygon" THEN start_Polygon(attrib)
    ELSE IF name = "Polyline"
         THEN Return(Polyline(get(attrib, "points", "", None).val))
    ELSE IF name = "Properties" THEN Return(Properties(<<>>))
    ELSE IF name = "Property" THEN start_Property(attrib)
    ELSE IF name = "Tile" THEN start_Tile(attrib)
    ELSE IF name = "Text" THEN Return(Text)
    ELSE IF name = "Tileset" THEN start_Tileset(attrib)
    ELSE Raise("ValueError", name)

-----------------------------------------------------------------------------
(* The loader: end folds a closed child into its parent.                     *)

\* what end leaves behind: the context, the parent and the child
Ended(ctx, parent, child) ==
    Return([ctx |-> ctx, parent |-> parent, child |-> child])

\* default_image_loader(filename, flags)(rect, flags)
default_image_loader(filename, rect, flags) ==
    [filename |-> filename, rect |-> rect, flags |-> flags]

\* one tile layer of the closed Map: its gids looked up in the cache, then
\* reshaped to rows of the map's width
ResolveLayer(ctx, tl, width) ==
    IF tl.data.t # "list" THEN Raise("TypeError", "")
    ELSE IF \E k \in 1..Len(tl.data.items) :
                decode_gid(tl.data.items[k])[1] \notin DOMAIN ctx.tiles
         THEN Raise("KeyError", "")
    ELSE IF width.t # "int" THEN Raise("TypeError", "")
    ELSE IF width.v = 0 THEN Raise("ValueError", "")
    ELSE Return([tl EXCEPT !.data = PyList(reshape_data(
                    [k \in 1..Len(tl.data.items) |->
                        ctx.tiles[decode_gid(tl.data.items[k])[1]]],
                    width.v))])

\* the Map with its layers as the loop left them, or what the loop raised
Resolved(ctx, child, layers) ==
    IF layers.ok THEN Ended(ctx, None, [child EXCEPT !.layers = layers.val.items])
    ELSE layers

\* path == "Map": every tile layer of the map resolved, in order
end_Map(ctx, child) ==
    Resolved(ctx, child,
             MapOrRaise([k \in 1..Len(child.layers) |->
                 IF child.layers[k].kind = "TileLayer"
                 THEN ResolveLayer(ctx, child.layers[k], child.width)
                 ELSE Return(child.layers[k])]))

\* the k-th tile of the sheet, k from 1: Tile(gid=gid, image=loader(rect, flags))
SheetTile(filename, origin, parent, raw_gid) ==
    Tile(None, PyInt(decode_gid(raw_gid)[1]),
         default_image_loader(filename,
                              <<origin[2], origin[1], parent.tilewidth.v,
                                parent.tileheight.v>>,
                              decode_gid(raw_gid)[2]))

\* the raw gid enumerate(p, parent.firstgid) gives the k-th origin, k from 1
RawGid(parent, k) == ToWord(parent.firstgid.v + k - 1)

\* the last origin whose tile is cached under gid g
LastOrigin(p, parent, g) ==
    CHOOSE j \in 1..Len(p) :
        /\ decode_gid(RawGid(parent, j))[1] = g
        /\ \A i \in (j + 1)..Len(p) : decode_gid(RawGid(parent, i))[1] # g

\* the cache after the loop over the origins p, a later tile replacing an
\* earlier one of the same gid
CacheSheet(tiles, filename, p, parent) ==
    [g \in {decode_gid(RawGid(parent, k))[1] : k \in 1..Len(p)} |->
        SheetTile(filename, p[LastOrigin(p, parent, g)], parent,
                  RawGid(parent, LastOrigin(p, parent, g)))] @@ tiles

\* path == "Tileset.Image": the sheet cut into tiles, cached from firstgid on
end_Tileset_Image(ctx, parent, child) ==
    IF child.source = NoStr THEN Raise("TypeError", "")
    ELSE IF \E v \in {child.width, child.height, parent.tilewidth,
                      parent.tileheight} : v.t # "int"
         THEN Raise("TypeError", "")
    ELSE IF parent.tileheight.v + parent.spacing.v = 0
            \/ parent.tilewidth.v + parent.spacing.v = 0
         THEN Raise("ValueError", "")
    ELSE Ended([ctx EXCEPT !.tiles =
                   CacheSheet(@, child.source,
                              iter_image_tiles(child.width.v, child.height.v,
                                               parent.tilewidth.v,
                                               parent.tileheight.v,
                                               parent.margin.v, parent.spacing.v),
                              parent)],
               parent, child)

\* ctx.tiles[parent.firstgid + child.id] = child
RegisterTile(ctx, parent, child) ==
    IF child.id.t # "int" THEN Raise("TypeError", "")
    ELSE Ended([ctx EXCEPT !.tiles = ((parent.firstgid.v + child.id.v) :> child) @@ @],
               parent, child)

\* path == "Tileset.Tile"
end_Tileset_Tile(ctx, parent, child) ==
    IF ~NumTruthy(parent.firstgid)
    THEN RegisterTile(ctx, [parent EXCEPT !.firstgid = ctx.firstgid], child)
    ELSE RegisterTile(ctx, parent, child)

\* path == "Tileset.Grid" without its assert: a faulty variant
end_Tileset_Grid_unasserted(ctx, parent, child) ==
    Ended(ctx, [parent EXCEPT !.orientation = child.orientation], child)

\* path == "Tileset.Grid"
end_Tileset_Grid(ctx, parent, child) ==
    IF child.orientation = "orthogonal"
    THEN Ended(ctx, [parent EXCEPT !.orientation = child.orientation], child)
    ELSE Raise("AssertionError", "")

\* path == "Layer.Data", gids being what unpack_gids returned or raised
end_Layer_Data(ctx, parent, child, gids) ==
    IF gids.ok THEN Ended(ctx, [parent EXCEPT !.data = gids.val], child) ELSE gids

\* path == "Map.Tileset", added being what add_tileset left or raised
end_Map_Tileset(ctx, child, added) ==
    IF added.ok THEN Ended(ctx, added.val, child) ELSE added

\* end(ctx, path, parent, child, stack); parent is None for the root
end(ctx, path, parent, child) ==
    IF path = "Data.Tile" THEN Raise("MasonException", "")
    ELSE IF path \in {"Group.Layer", "Group.Objectgroup"}
         THEN Ended(ctx, [parent EXCEPT !.layers = Append(@, child)], child)
    ELSE IF path = "Imagelayer.Image"
         THEN Ended(ctx, [parent EXCEPT !.image = child], child)
    ELSE IF path = "Layer.Data"
         THEN end_Layer_Data(ctx, parent, child,
                             unpack_gids(child.text, child.encoding,
                                         child.compression))
    ELSE IF path \in {"Layer.Properties", "Map.Properties", "Object.Properties",
                      "Tileset.Properties", "Tile.Properties"}
         THEN Ended(ctx, SetAttr(parent, "properties", child.data), child)
    ELSE IF path = "Map" THEN end_Map(ctx, child)
    ELSE IF path \in {"Map.Group", "Map.Imagelayer", "Map.Layer", "Map.Objectgroup"}
         THEN Ended(ctx, add_layer(parent, child), child)
    ELSE IF path = "Map.Tileset"
         THEN end_Map_Tileset(ctx, child, add_tileset(parent, child))
    ELSE IF path \in {"Object.Ellipse", "Object.Point", "Object.Polygon",
                      "Object.Polyline", "Object.Text"}
         THEN Ended(ctx, [parent EXCEPT !.shapes = Append(@, child)], child)
    ELSE IF path = "Objectgroup.Object"
         THEN Ended(ctx, [parent EXCEPT !.objects = Append(@, child)], child)
    ELSE IF path = "Properties.Property"
         THEN Ended(ctx, [parent EXCEPT !.data = (child.name :> child.value) @@ @],
                    child)
    ELSE IF path = "Tileset.Grid" THEN end_Tileset_Grid(ctx, parent, child)
    ELSE IF path = "Tileset.Image" THEN end_Tileset_Image(ctx, parent, child)
    ELSE IF path = "Tile.Image"
         THEN IF child.source = NoStr THEN Raise("TypeError", "")
              ELSE IF ctx.image_loader = "default_image_loader"
                   THEN Raise("TypeError", "flags")
              ELSE Ended(ctx, [parent EXCEPT !.image =
                                  default_image_loader(child.source, None, None)],
                         child)
    ELSE IF path = "Tileset" THEN Ended(ctx, parent, child)
    ELSE IF path = "Tileset.Tile" THEN end_Tileset_Tile(ctx, parent, child)
    ELSE Raise("ValueError", path)

-----------------------------------------------------------------------------
(* The loader as a state machine.  frames holds the running iter_tmx calls,  *)
(* the innermost last: each has the stack of its open elements and the start *)
(* call that is waiting for it (None under load_tmx).  The documents are     *)
(* small enough to be read whole, so an element's text is there at its start *)
(* event.  A path stands for itself, the folder left out.                    *)

\* element.tag.title(), for the tags of the documents
title ==
    [tag \in {"map", "tileset", "image", "tile", "grid", "layer", "data",
              "objectgroup", "object", "ellipse", "point", "polygon", "polyline",
              "text", "properties", "property", "group", "imagelayer",
              "wangsets"} |->
        CASE tag = "map" -> "Map" [] tag = "tileset" -> "Tileset"
          [] tag = "image" -> "Image" [] tag = "tile" -> "Tile"
          [] tag = "grid" -> "Grid" [] tag = "layer" -> "Layer"
          [] tag = "data" -> "Data" [] tag = "objectgroup" -> "Objectgroup"
          [] tag = "object" -> "Object" [] tag = "ellipse" -> "Ellipse"
          [] tag = "point" -> "Point" [] tag = "polygon" -> "Polygon"
          [] tag = "polyline" -> "Polyline" [] tag = "text" -> "Text"
          [] tag = "properties" -> "Properties" [] tag = "property" -> "Property"
          [] tag = "group" -> "Group" [] tag = "imagelayer" -> "Imagelayer"
          [] tag = "wangsets" -> "Wangsets"]

NoAttrib == [k \in {} |-> <<>>]

Optional(key, values) == {NoAttrib} \cup {key :> v : v \in values}

Combine(A, B) == {a @@ b : a \in A, b \in B}

\* the attributes an element of the documents may carry
AttribsOf(tag) ==
    CASE tag = "map" -> Optional("width", {<<"2">>})
      [] tag = "tileset" ->
            Combine(Optional("firstgid", {<<"1">>, <<"3">>}),
                    Combine(Optional("source", {"shared.tsx"}),
                            {[tilewidth |-> <<"1">>, tileheight |-> <<"1">>]}))
      [] tag = "image" ->
            {NoAttrib, [source |-> "sheet.png", width |-> <<"2">>, height |-> <<"1">>]}
      [] tag = "tile" -> Optional("id", {<<"0">>, <<"1">>})
      [] tag = "grid" -> {[orientation |-> "orthogonal"], [orientation |-> "hexagonal"]}
      [] tag = "layer" -> {[name |-> "ground"]}
      [] tag = "data" ->
            {NoAttrib, [encoding |-> "csv"], [encoding |-> "base64"]}
      [] tag = "objectgroup" -> {[name |-> "things"]}
      [] tag = "object" ->
            Combine(Optional("y", {<<"5">>}),
                    Combine(Optional("height", {<<"0">>, <<"2">>, <<"-", "2">>}),
                            {NoAttrib, [x |-> <<"1">>, width |-> <<"3">>]}))
      [] tag = "point" -> {[x |-> <<"1">>, y |-> <<"1">>]}
      [] tag = "polygon" ->
            Optional("points", {<<"0", ",", "0", " ", "1", ",", "2">>})
      [] tag = "property" -> {[name |-> "k", value |-> "v"], [name |-> "k"]}
      [] tag = "group" -> {[name |-> "g"]}
      [] tag = "imagelayer" -> {[name |-> "sky"]}
      [] OTHER -> {NoAttrib}

\* the texts an element of the documents may have
TextsOf(tag, attrib) ==
    IF tag # "data" THEN {None}
    ELSE IF "encoding" \notin DOMAIN attrib THEN {[kind |-> "chars", chars |-> <<>>]}
    ELSE IF attrib.encoding = "csv"
         THEN {[kind |-> "chars", chars |-> <<"0", ",", "1">>],
               [kind |-> "chars", chars |-> <<"0", ",", "0">>],
               [kind |-> "chars", chars |-> <<"4">>]}
    ELSE {[kind |-> "b64", data |-> <<1, 0, 0, 128>>]}

\* the tags the documents put inside an element, or at the root of a file
ChildTags(parent) ==
    CASE parent = "Map" ->
            {"tileset", "layer", "objectgroup", "group", "imagelayer",
             "properties", "wangsets"}
      [] parent = "Tileset" -> {"image", "tile", "grid", "properties"}
      [] parent = "Tile" -> {"image", "properties"}
      [] parent = "Layer" -> {"data", "properties"}
      [] parent = "Data" -> {"tile"}
      [] parent = "Objectgroup" -> {"object", "properties"}
      [] parent = "Object" ->
            {"ellipse", "point", "polygon", "polyline", "text", "properties"}
      [] parent = "Properties" -> {"property"}
      [] parent = "Group" -> {"layer", "objectgroup", "group", "imagelayer"}
      [] parent = "Imagelayer" -> {"image"}
      [] parent = "map.tmx" -> {"map"}
      [] parent = "shared.tsx" -> {"tileset"}
      [] OTHER -> {}

Elements(tags) ==
    UNION {UNION {{[tag |-> tag, attrib |-> a, text |-> x] : x \in TextsOf(tag, a)} :
                     a \in AttribsOf(tag)} : tag \in tags}

Top == frames[Len(frames)]

\* the elements that may start next
Offers ==
    IF pc # "parsing" THEN {}
    ELSE IF Top.stack = <<>> THEN Elements(ChildTags(Top.path))
    ELSE Elements(ChildTags(Top.stack[Len(Top.stack)].type))

\* the Tileset branch of start as far as its test of source: the context
start_Tileset_firstgid(c, attrib) ==
    LET firstgid == get(attrib, "firstgid", "int", None)
    IN  IF ~firstgid.ok THEN firstgid
        ELSE IF NumTruthy(firstgid.val)
             THEN Return([c EXCEPT !.firstgid = firstgid.val])
        ELSE Return(c)

\* the test of source
HasSource(name, attrib) ==
    name = "Tileset" /\ Truthy(get(attrib, "source", "", NoStr).val)

\* event, element of iter_tmx's loop: the event, the element's title-cased
\* tag and attributes, and at an end event the path handed to end
Event(event, name, attrib, path) ==
    [event |-> event, name |-> name, attrib |-> attrib, path |-> path]

\* an exception that nothing catches ends the load
Uncaught(r) ==
    /\ pc' = "raised"
    /\ ret' = r
    /\ frames' = <<>>

Push(token) ==
    frames' = [frames EXCEPT ![Len(frames)].stack = Append(@, token)]

InitLoad ==
    /\ call = [fn |-> "load_tmx", path |-> "map.tmx",
               image_loader |-> "default_image_loader"]
    /\ ret = None
    /\ pc = "parsing"
    /\ map = Map(None)
    /\ context = Context("default_image_loader", TRUE, (0 :> None), PyInt(0))
    /\ frames = <<[path |-> "map.tmx", stack |-> <<>>, caller |-> None]>>
    /\ started = 0
    /\ element = None
    /\ viewer = None

\* the context start leaves when it gets as far as building the object
start_context(c, name, attrib) ==
    IF name = "Tileset" THEN start_Tileset_firstgid(c, attrib) ELSE Return(c)

\* t = Token(name, attrib, text, obj); stack.append(t), or what start raised
Started(e, c, obj) ==
    IF ~obj.ok THEN Uncaught(obj) /\ context' = c
    ELSE /\ Push(Token(title[e.tag], e.attrib, e.text, obj.val))
         /\ context' = c
         /\ UNCHANGED <<pc, ret>>

\* start with the context c its Tileset branch left, or what that raised
Starting(e, c) ==
    IF ~c.ok THEN Uncaught(c) /\ UNCHANGED context
    ELSE Started(e, c.val, start(c.val, title[e.tag], e.attrib, e.text))

\* a start event, of any element but a Tileset with a source
StartEvent(e) ==
    /\ pc = "parsing"
    /\ started < MaxElems
    /\ Len(Top.stack) < MaxDepth
    /\ e \in Offers
    /\ ~HasSource(title[e.tag], e.attrib)
    /\ Starting(e, start_context(context, title[e.tag], e.attrib))
    /\ started' = started + 1
    /\ element' = Event("start", title[e.tag], e.attrib, NoStr)
    /\ UNCHANGED <<call, map, viewer>>

\* list(iter_tmx(ctx, path)) begins, start waiting for it
Opening(e, c) ==
    IF ~c.ok THEN Uncaught(c) /\ UNCHANGED context
    ELSE /\ frames' = Append(frames,
                 [path |-> e.attrib.source, stack |-> <<>>,
                  caller |-> [name |-> title[e.tag], attrib |-> e.attrib,
                              text |-> e.text]])
         /\ context' = c.val
         /\ UNCHANGED <<pc, ret>>

\* the start event of a Tileset with a source: start reads the external file
StartExternal(e) ==
    /\ pc = "parsing"
    /\ started < MaxElems
    /\ Len(Top.stack) < MaxDepth
    /\ Len(frames) < MaxFiles
    /\ e \in Offers
    /\ HasSource(title[e.tag], e.attrib)
    /\ Opening(e, start_Tileset_firstgid(context, e.attrib))
    /\ started' = started + 1
    /\ element' = Event("start", title[e.tag], e.attrib, NoStr)
    /\ UNCHANGED <<call, map, viewer>>

\* the stack with the closed element's token left on it: a faulty variant
Popped_not(stack, r) ==
    [stack EXCEPT ![Len(stack) - 1].obj = r.parent]

\* the stack after t = stack.pop() and end, which left r.parent for the parent
Popped(stack, r) ==
    [SubSeq(stack, 1, Len(stack) - 1) EXCEPT ![Len(stack) - 1].obj = r.parent]

\* the step after end returned or raised r
Closing(r) ==
    IF ~r.ok THEN Uncaught(r) /\ UNCHANGED context
    ELSE /\ frames' = [frames EXCEPT ![Len(frames)].stack = Popped(@, r.val)]
         /\ context' = r.val.ctx
         /\ UNCHANGED <<pc, ret>>

\* the end event of an element inside another
EndEvent ==
    /\ pc = "parsing"
    /\ Len(Top.stack) >= 2
    /\ Closing(end(context,
                   Top.stack[Len(Top.stack) - 1].type \o "."
                       \o Top.stack[Len(Top.stack)].type,
                   Top.stack[Len(Top.stack) - 1].obj,
                   Top.stack[Len(Top.stack)].obj))
    /\ element' = Event("end", Top.stack[Len(Top.stack)].type,
                        Top.stack[Len(Top.stack)].attrib,
                        Top.stack[Len(Top.stack) - 1].type \o "."
                            \o Top.stack[Len(Top.stack)].type)
    /\ UNCHANGED <<call, map, started, viewer>>

\* the frames after the inner iter_tmx is exhausted: the waiting start returns
\* the object and iter_tmx of the caller puts its token on the stack
Resumed(obj) ==
    [SubSeq(frames, 1, Len(frames) - 1) EXCEPT ![Len(frames) - 1].stack =
        Append(@, Token(Top.caller.name, Top.caller.attrib, Top.caller.text, obj))]

Returning(r) ==
    IF ~r.ok THEN Uncaught(r) /\ UNCHANGED context
    ELSE /\ frames' = Resumed(r.val.child)
         /\ context' = r.val.ctx
         /\ UNCHANGED <<pc, ret>>

\* the end event of the root of an external file
EndExternal ==
    /\ pc = "parsing"
    /\ Len(frames) >= 2
    /\ Len(Top.stack) = 1
    /\ Returning(end(context, Top.stack[1].type, None, Top.stack[1].obj))
    /\ element' = Event("end", Top.stack[1].type, Top.stack[1].attrib,
                        Top.stack[1].type)
    /\ UNCHANGED <<call, map, started, viewer>>

Loaded(r) ==
    IF ~r.ok THEN Uncaught(r) /\ UNCHANGED context
    ELSE /\ pc' = "returned"
         /\ ret' = Return(r.val.child)
         /\ frames' = <<>>
         /\ context' = r.val.ctx

\* the end event of the root of the map file: load_tmx returns its object
EndRoot ==
    /\ pc = "parsing"
    /\ Len(frames) = 1
    /\ Len(Top.stack) = 1
    /\ Loaded(end(context, Top.stack[1].type, None, Top.stack[1].obj))
    /\ element' = Event("end", Top.stack[1].type, Top.stack[1].attrib,
                        Top.stack[1].type)
    /\ UNCHANGED <<call, map, started, viewer>>

Next ==
    \/ \E e \in Offers : StartEvent(e)
    \/ \E e \in Offers : StartExternal(e)
    \/ EndEvent
    \/ EndExternal
    \/ EndRoot

Spec == InitLoad /\ [][Next]_vars

-----------------------------------------------------------------------------
(* The library functions, each called once on an input drawn from a bounded *)
(* set.                                                                      *)

FlagBits == {31, 30, 29}

ZeroWord == [i \in BitPos |-> 0]

\* base_gid | flags, as a caller composes a raw gid
ComposeGid(base_gid, flags) ==
    BitOr(ToWord(base_gid),
          BitOr(IF 31 \in flags THEN GID_TRANS_FLIPX ELSE ZeroWord,
                BitOr(IF 30 \in flags THEN GID_TRANS_FLIPY ELSE ZeroWord,
                      IF 29 \in flags THEN GID_TRANS_ROT ELSE ZeroWord)))

BaseGids ==
    (0..MaxBaseGid) \cup {2 ^ 29 - 1 - n : n \in 0..MaxBaseGid}
        \cup {2 ^ k : k \in 0..28}

InitGid ==
    /\ call \in [fn : {"decode_gid"}, base_gid : BaseGids, flags : SUBSET FlagBits]
    /\ ret = None
    /\ pc = "ready"
    /\ map = Map(None)
    /\ context = None
    /\ frames = <<>>
    /\ started = 0
    /\ element = None
    /\ viewer = None

Call_decode_gid ==
    /\ pc = "ready"
    /\ call.fn = "decode_gid"
    /\ ret' = Return(decode_gid(ComposeGid(call.base_gid, call.flags)))
    /\ pc' = "returned"
    /\ UNCHANGED <<call, map, loader, viewer>>

NextGid == Call_decode_gid

SpecGid == InitGid /\ [][NextGid]_vars

\* the sheet of the slicing example: 130 x 64, tiles 32 x 32, margin 1, spacing 2
ExampleSheet ==
    [fn |-> "iter_image_tiles", width |-> 130, height |-> 64, tilewidth |-> 32,
     tileheight |-> 32, margin |-> 1, spacing |-> 2]

InitSlice ==
    /\ call \in [fn : {"iter_image_tiles"}, width : 0..MaxSheet,
                 height : 0..MaxSheet, tilewidth : 1..MaxTileSize,
                 tileheight : 1..MaxTileSize, margin : 0..MaxMargin,
                 spacing : 0..MaxMargin] \cup {ExampleSheet}
    /\ ret = None
    /\ pc = "ready"
    /\ map = Map(None)
    /\ context = None
    /\ frames = <<>>
    /\ started = 0
    /\ element = None
    /\ viewer = None

Call_iter_image_tiles ==
    /\ pc = "ready"
    /\ call.fn = "iter_image_tiles"
    /\ ret' = Return(iter_image_tiles(call.width, call.height, call.tilewidth,
                                      call.tileheight, call.margin, call.spacing))
    /\ pc' = "returned"
    /\ UNCHANGED <<call, map, loader, viewer>>

NextSlice == Call_iter_image_tiles

SpecSlice == InitSlice /\ [][NextSlice]_vars

\* the sequences over S of length 0..n
SeqsUpTo(S, n) == UNION {[1..k -> S] : k \in 0..n}

InitReshape ==
    /\ call \in [fn : {"reshape_data"}, gids : SeqsUpTo({1, 2}, MaxGids),
                 width : 1..MaxWidth]
    /\ ret = None
    /\ pc = "ready"
    /\ map = Map(None)
    /\ context = None
    /\ frames = <<>>
    /\ started = 0
    /\ element = None
    /\ viewer = None

Call_reshape_data ==
    /\ pc = "ready"
    /\ call.fn = "reshape_data"
    /\ ret' = Return(reshape_data(call.gids, call.width))
    /\ pc' = "returned"
    /\ UNCHANGED <<call, map, loader, viewer>>

NextReshape == Call_reshape_data

SpecReshape == InitReshape /\ [][NextReshape]_vars

ByteVals == {1, 200}

CsvChars == {"0", "1", "2", ",", " ", "x"}

ExampleCsv == <<"1", ",", "2", ",", "3", ",", "0", ",", "5">>

Encodings == {"base64", "csv", "base32", NoStr}

Compressions == {"gzip", "zlib", "lzma", "zstd", NoStr}

\* a payload as the writer of the file packs it before the base64 step
Pack(wrap, payload) ==
    IF wrap = "gzip" THEN GzipHeader \o payload
    ELSE IF wrap = "zlib" THEN ZlibHeader \o payload
    ELSE payload

\* the Data texts: each payload packed each way, and each csv text; payload and
\* wrap record how a base64 text was made, and unpack_gids does not see them
DataTexts ==
    {[text |-> [kind |-> "b64", data |-> Pack(w, p)], payload |-> p, wrap |-> w] :
        p \in SeqsUpTo(ByteVals, MaxDataLen), w \in {NoStr, "gzip", "zlib"}}
    \cup {[text |-> [kind |-> "chars", chars |-> c], payload |-> <<>>, wrap |-> NoStr] :
        c \in SeqsUpTo(CsvChars, MaxTextLen) \cup {ExampleCsv}}

InitUnpack ==
    /\ \E d \in DataTexts, e \in Encodings, c \in Compressions :
          call = [fn |-> "unpack_gids", text |-> d.text, encoding |-> e,
                  compression |-> c, payload |-> d.payload, wrap |-> d.wrap]
    /\ ret = None
    /\ pc = "ready"
    /\ map = Map(None)
    /\ context = None
    /\ frames = <<>>
    /\ started = 0
    /\ element = None
    /\ viewer = None

Call_unpack_gids ==
    /\ pc = "ready"
    /\ call.fn = "unpack_gids"
    /\ ret' = unpack_gids(call.text, call.encoding, call.compression)
    /\ pc' = "returned"
    /\ UNCHANGED <<call, map, loader, viewer>>

NextUnpack == Call_unpack_gids

SpecUnpack == InitUnpack /\ [][NextUnpack]_vars

-----------------------------------------------------------------------------
(* A Map built with add_layer and add_tileset, and queried.                  *)

\* a resolved grid of rows x cols cells: the cell at row y, column x holds the
\* tile of gid base + y * cols + x, and the first cell of all holds no tile
SampleGrid(rows, cols, base) ==
    PyList([y \in 1..rows |->
        [x \in 1..cols |->
            IF x = 1 /\ y = 1 THEN None
            ELSE Tile(None, PyInt(base + (y - 1) * cols + (x - 1)), "image")]])

SampleLayers ==
    {TileLayer("ground", SampleGrid(2, 2, 1)), TileLayer("top", SampleGrid(1, 2, 11)),
     ObjectGroup("things", <<>>)}

SampleTileset(firstgid, name) ==
    Tileset(PyInt(firstgid), NoStr, name, PyInt(1), PyInt(1), PyInt(0), PyInt(0))

SampleTilesets == {SampleTileset(1, "a"), SampleTileset(50, "b")}

QueryArgs == {PyInt(n) : n \in (-1)..MaxCoord} \cup {PyStr("a"), None}

QueryGids == {0, 1, 49, 50, 51}

InitQuery ==
    /\ call = [fn |-> "Map"]
    /\ ret = None
    /\ pc = "ready"
    /\ map = Map(None)
    /\ context = None
    /\ frames = <<>>
    /\ started = 0
    /\ element = None
    /\ viewer = None

Do_add_layer(layer) ==
    /\ pc = "ready"
    /\ Len(map.layers) < MaxLayers
    /\ map' = add_layer(map, layer)
    /\ UNCHANGED <<loader, viewer>>
    /\ UNCHANGED <<call, ret, pc>>

Do_add_tileset(tileset) ==
    /\ pc = "ready"
    /\ Len(map.tilesets) < MaxTilesets
    /\ map' = add_tileset(map, tileset).val
    /\ UNCHANGED <<loader, viewer>>
    /\ UNCHANGED <<call, ret, pc>>

Call_get_tile_gid(x, y, layer) ==
    /\ pc = "ready"
    /\ call' = [fn |-> "get_tile_gid", x |-> x, y |-> y, layer |-> layer]
    /\ ret' = get_tile_gid(map, x, y, layer)
    /\ pc' = "returned"
    /\ UNCHANGED <<map, loader, viewer>>

Call_get_tileset_from_gid(gid) ==
    /\ pc = "ready"
    /\ call' = [fn |-> "get_tileset_from_gid", gid |-> gid]
    /\ ret' = get_tileset_from_gid(map, gid)
    /\ pc' = "returned"
    /\ UNCHANGED <<map, loader, viewer>>

\* the caller takes the outcome of its query and goes on
Resume ==
    /\ pc = "returned"
    /\ call' = [fn |-> "Map"]
    /\ ret' = None
    /\ pc' = "ready"
    /\ UNCHANGED <<map, loader, viewer>>

\* get_tile_image_by_gid emptying the image table when it fails: a faulty
\* variant
Call_get_tile_image_by_gid_clearing(gid) ==
    /\ pc = "ready"
    /\ call' = [fn |-> "get_tile_image_by_gid", gid |-> gid]
    /\ ret' = get_tile_image_by_gid(map, gid)
    /\ pc' = "returned"
    /\ map' = IF ret'.ok THEN map ELSE [map EXCEPT !.images = <<>>]
    /\ UNCHANGED <<loader, viewer>>

Call_get_tile_image_by_gid(gid) ==
    /\ pc = "ready"
    /\ call' = [fn |-> "get_tile_image_by_gid", gid |-> gid]
    /\ ret' = get_tile_image_by_gid(map, gid)
    /\ pc' = "returned"
    /\ UNCHANGED <<map, loader, viewer>>

Call_get_tile_image(x, y, layer) ==
    /\ pc = "ready"
    /\ call' = [fn |-> "get_tile_image", x |-> x, y |-> y, layer |-> layer]
    /\ ret' = get_tile_image(map, x, y, layer)
    /\ pc' = "returned"
    /\ UNCHANGED <<map, loader, viewer>>

\* tiles() of the tile layer at index layer of the map's layers, run to its end
Call_tiles(layer) ==
    /\ pc = "ready"
    /\ layer < Len(map.layers)
    /\ map.layers[layer + 1].kind = "TileLayer"
    /\ call' = [fn |-> "tiles", layer |-> layer]
    /\ ret' = TileLayer_tiles(map.layers[layer + 1])
    /\ pc' = "returned"
    /\ UNCHANGED <<map, loader, viewer>>

Call_get_object_by_name(name) ==
    /\ pc = "ready"
    /\ call' = [fn |-> "get_object_by_name", name |-> name]
    /\ ret' = get_object_by_name(map, name)
    /\ pc' = "returned"
    /\ UNCHANGED <<map, loader, viewer>>

NextQuery ==
    \/ \E layer \in SampleLayers : Do_add_layer(layer)
    \/ \E tileset \in SampleTilesets : Do_add_tileset(tileset)
    \/ \E x \in QueryArgs, y \in QueryArgs, layer \in QueryArgs :
          Call_get_tile_gid(x, y, layer)
    \/ \E gid \in QueryGids : Call_get_tileset_from_gid(gid)
    \/ Resume

SpecQuery == InitQuery /\ [][NextQuery]_vars

-----------------------------------------------------------------------------
(* The lookups of a Map that was built with an image table: any number of   *)
(* calls, one after the other, while layers are still being added.           *)

\* a grid of raw gids, as a layer holds it that was built by hand
RawGrid == PyList(<<<<PyInt(0), PyInt(1)>>, <<PyInt(2), PyInt(0)>>>>)

LookupLayers ==
    SampleLayers \cup
        {TileLayer("raw", RawGrid),
         ObjectGroup("npcs", <<Object("bob", PyFloat(1), PyFloat(2), None, None),
                               Object(NoStr, None, None, None, None),
                               Object("bob", PyFloat(3), PyFloat(4), None, None)>>)}

ImageTables == {<<>>, <<"image0", "image1", "image2">>}

LookupGids ==
    {PyInt(n) : n \in (-4)..3} \cup {PyFloat(1), PyStr("a"), None,
                                     Tile(None, PyInt(1), "image")}

LookupNames == {PyStr("bob"), PyStr("zed"), None, PyInt(0)}

InitLookup ==
    /\ call = [fn |-> "Map"]
    /\ ret = None
    /\ pc = "ready"
    /\ \E images \in ImageTables : map = [Map(None) EXCEPT !.images = images]
    /\ context = None
    /\ frames = <<>>
    /\ started = 0
    /\ element = None
    /\ viewer = None

NextLookup ==
    \/ \E layer \in LookupLayers : Do_add_layer(layer)
    \/ \E x \in QueryArgs, y \in QueryArgs, layer \in QueryArgs :
          Call_get_tile_gid(x, y, layer)
    \/ \E x \in QueryArgs, y \in QueryArgs, layer \in QueryArgs :
          Call_get_tile_image(x, y, layer)
    \/ \E gid \in LookupGids : Call_get_tile_image_by_gid(gid)
    \/ \E name \in LookupNames : Call_get_object_by_name(name)
    \/ \E layer \in 0..(MaxLayers - 1) : Call_tiles(layer)
    \/ Resume

SpecLookup == InitLookup /\ [][NextLookup]_vars

-----------------------------------------------------------------------------
(* The viewer: SimpleTest.run on a SimpleTest whose window is open and whose *)
(* map is loaded, while the user's events arrive in pygame's queue.  viewer  *)
(* holds the SimpleTest (self), the place run has reached (at) and the       *)
(* events pygame has queued and handle_input has not yet drained (queue),    *)
(* and the events handle_input took in the iteration under way (drained).    *)

MaxEvents == 2

\* SimpleTest.__init__, then the fields init and load_map assign
SimpleTest(renderer, screen) ==
    [renderer |-> renderer, running |-> FALSE, dirty |-> FALSE, screen |-> screen]

\* the events the user can cause: closing the window, pressing escape or
\* another key, resizing the window, moving the mouse
Events ==
    {[type |-> "QUIT"],
     [type |-> "KEYDOWN", key |-> "K_ESCAPE"],
     [type |-> "KEYDOWN", key |-> "K_a"],
     [type |-> "VIDEORESIZE"],
     [type |-> "MOUSEMOTION"]}

\* the body of handle_input's loop with the two branches of the key test told
\* apart, as the on-screen hint describes the keys: a faulty variant
handle_event_escape_only(self, event) ==
    IF event.type = "QUIT" THEN [self EXCEPT !.running = FALSE]
    ELSE IF event.type = "KEYDOWN"
         THEN IF event.key = "K_ESCAPE" THEN [self EXCEPT !.running = FALSE]
              ELSE self
    ELSE IF event.type = "VIDEORESIZE" THEN [self EXCEPT !.dirty = TRUE]
    ELSE self

\* the body of handle_input's loop, for one event
handle_event(self, event) ==
    IF event.type = "QUIT" THEN [self EXCEPT !.running = FALSE]
    ELSE IF event.type = "KEYDOWN"
         THEN IF event.key = "K_ESCAPE" THEN [self EXCEPT !.running = FALSE]
              ELSE [self EXCEPT !.running = FALSE]
    ELSE IF event.type = "VIDEORESIZE" THEN [self EXCEPT !.dirty = TRUE]
    ELSE self

\* SimpleTest.handle_input over the events pygame.event.get() returned
RECURSIVE handle_input(_, _)
handle_input(self, events) ==
    IF events = <<>> THEN self
    ELSE handle_input(handle_event(self, Head(events)), Tail(events))

\* the user causes an event while the window is there
Post(event) ==
    /\ pc = "viewer"
    /\ viewer.at \notin {"returned", "raised"}
    /\ Len(viewer.queue) < MaxEvents
    /\ viewer' = [viewer EXCEPT !.queue = Append(@, event)]
    /\ UNCHANGED <<call, ret, pc, map, loader>>

\* run, up to its loop
Run ==
    /\ pc = "viewer"
    /\ viewer.at = "run"
    /\ viewer' = [viewer EXCEPT !.self.dirty = TRUE, !.self.running = TRUE,
                                !.at = "while"]
    /\ UNCHANGED <<call, ret, pc, map, loader>>

\* while self.running
While ==
    /\ pc = "viewer"
    /\ viewer.at = "while"
    /\ viewer' = [viewer EXCEPT
                    !.at = IF viewer.self.running THEN "handle_input" ELSE "returned"]
    /\ ret' = IF viewer.self.running THEN ret ELSE Return(None)
    /\ UNCHANGED <<call, pc, map, loader>>

\* self.handle_input(): every event queued so far is taken and handled
HandleInput ==
    /\ pc = "viewer"
    /\ viewer.at = "handle_input"
    /\ viewer' = [viewer EXCEPT !.self = handle_input(@, viewer.queue),
                                !.queue = <<>>,
                                !.drained = viewer.queue,
                                !.at = "draw"]
    /\ UNCHANGED <<call, ret, pc, map, loader>>

\* if self.dirty: self.draw(), which reads self.renderer.pixel_size first
Draw ==
    /\ pc = "viewer"
    /\ viewer.at = "draw"
    /\ IF viewer.self.dirty /\ viewer.self.renderer = None
       THEN /\ viewer' = [viewer EXCEPT !.at = "raised"]
            /\ ret' = Raise("AttributeError", "pixel_size")
       ELSE /\ viewer' = [viewer EXCEPT !.at = "flip"]
            /\ UNCHANGED ret
    /\ UNCHANGED <<call, pc, map, loader>>

\* pygame.display.flip(); clock.tick(60)
Flip ==
    /\ pc = "viewer"
    /\ viewer.at = "flip"
    /\ viewer' = [viewer EXCEPT !.at = "while", !.drained = <<>>]
    /\ UNCHANGED <<call, ret, pc, map, loader>>

InitViewer ==
    /\ call = [fn |-> "run"]
    /\ ret = None
    /\ pc = "viewer"
    /\ map = None
    /\ context = None
    /\ frames = <<>>
    /\ started = 0
    /\ element = None
    /\ viewer = [self |-> SimpleTest([kind |-> "BasicRenderer"], "display"),
                 at |-> "run", queue |-> <<>>, drained |-> <<>>]

\* the steps run itself takes
RunStep == Run \/ While \/ HandleInput \/ Draw \/ Flip

NextViewer ==
    \/ \E event \in Events : Post(event)
    \/ Run
    \/ While
    \/ HandleInput
    \/ Draw
    \/ Flip

\* the interpreter goes on executing run for as long as run has a next step
SpecViewer == InitViewer /\ [][NextViewer]_vars /\ WF_vars(RunStep)

-----------------------------------------------------------------------------
(* The viewer's entry point: a SimpleTest is made, its window opened, one    *)
(* map loaded for every file the directory scan found, and run entered.      *)
(* viewer holds, besides what run needs, the files of the scan still to be   *)
(* gone through (files) of those it found (scan), the paths load_map was     *)
(* called with (loads) and the state of the pygame window (window).          *)

MaxMaps == 2

\* what glob.glob(os.path.join("data", "*.tmx")) can return
Scans == {[k \in 1..n |-> <<"data", k>>] : n \in 0..MaxMaps}

\* the path the loop body assigns to filename before each load
FixedMap == "../../Tuxemon/mods/tuxemon/maps/taba_town.tmx"

\* BasicRenderer(filename), when the load succeeds
BasicRenderer(filename) == [kind |-> "BasicRenderer", filename |-> filename]

\* viewer = SimpleTest(); viewer.init()
InitMain ==
    /\ call = [fn |-> "__main__"]
    /\ ret = None
    /\ pc = "viewer"
    /\ map = None
    /\ context = None
    /\ frames = <<>>
    /\ started = 0
    /\ element = None
    /\ \E scan \in Scans :
          viewer = [self |-> SimpleTest(None, "display"), at |-> "for",
                    queue |-> <<>>, drained |-> <<>>, scan |-> scan,
                    files |-> scan, loads |-> <<>>, window |-> "open"]

\* an iteration of the for loop with the path of the file the scan found
\* handed to load_map: a faulty variant
LoadMap_scanned(loaded) ==
    /\ pc = "viewer"
    /\ viewer.at = "for"
    /\ viewer.files # <<>>
    /\ viewer' = [viewer EXCEPT
                    !.files = Tail(@),
                    !.loads = Append(@, Head(viewer.files)),
                    !.self.renderer = IF loaded THEN BasicRenderer(Head(viewer.files))
                                      ELSE @,
                    !.at = IF loaded THEN "for" ELSE "except"]
    /\ ret' = IF loaded THEN ret ELSE Raise("Exception", "load_map")
    /\ UNCHANGED <<call, pc, map, loader>>

\* an iteration of the for loop: filename is replaced by the fixed path and
\* load_map(filename) builds the renderer, or raises
LoadMap(loaded) ==
    /\ pc = "viewer"
    /\ viewer.at = "for"
    /\ viewer.files # <<>>
    /\ viewer' = [viewer EXCEPT
                    !.files = Tail(@),
                    !.loads = Append(@, FixedMap),
                    !.self.renderer = IF loaded THEN BasicRenderer(FixedMap) ELSE @,
                    !.at = IF loaded THEN "for" ELSE "except"]
    /\ ret' = IF loaded THEN ret ELSE Raise("Exception", "load_map")
    /\ UNCHANGED <<call, pc, map, loader>>

\* except: pygame.quit()
Quit ==
    /\ pc = "viewer"
    /\ viewer.at = "except"
    /\ viewer' = [viewer EXCEPT !.window = "quit", !.at = "raise"]
    /\ UNCHANGED <<call, ret, pc, map, loader>>

\* raise: the error leaves the process
Reraise ==
    /\ pc = "viewer"
    /\ viewer.at = "raise"
    /\ viewer' = [viewer EXCEPT !.at = "raised"]
    /\ UNCHANGED <<call, ret, pc, map, loader>>

\* the for loop is exhausted: viewer.run() is next
Loop_done ==
    /\ pc = "viewer"
    /\ viewer.at = "for"
    /\ viewer.files = <<>>
    /\ viewer' = [viewer EXCEPT !.at = "run"]
    /\ UNCHANGED <<call, ret, pc, map, loader>>

NextMain ==
    \/ \E loaded \in BOOLEAN : LoadMap(loaded)
    \/ Quit
    \/ Reraise
    \/ Loop_done
    \/ \E event \in Events : Post(event)
    \/ Run
    \/ While
    \/ HandleInput
    \/ Draw
    \/ Flip

\* the steps the interpreter takes on its own
MainStep == (\E loaded \in BOOLEAN : LoadMap(loaded)) \/ Quit \/ Reraise \/ Loop_done \/ RunStep

SpecMain == InitMain /\ [][NextMain]_vars /\ WF_vars(MainStep)

-----------------------------------------------------------------------------
(* The claims *)

Returned(fn) == pc = "returned" /\ call.fn = fn

\* C1: decode_gid(base_gid | flags) returns exactly base_gid and the triple
\* (horizontal, vertical, diagonal) that is true exactly for the flag bits set
\* (bit 31, bit 30, bit 29); with no flag set, (base_gid, (false, false, false)).
C1_DecodeGidRoundTrip ==
    Returned("decode_gid") =>
        ret.val = <<call.base_gid,
                    TileFlags(31 \in call.flags, 30 \in call.flags,
                              29 \in call.flags)>>

\* a gid with every low bit set, flipped horizontally and rotated, was decoded
C1_Witness ==
    /\ Returned("decode_gid")
    /\ call.base_gid = 2 ^ 29 - 1
    /\ call.flags = {31, 29}
    /\ ret.val[2].horizontal /\ ~ret.val[2].vertical /\ ret.val[2].diagonal

\* the origins along one axis as the slicing rule states them: margin,
\* margin + (tile + spacing), ... while origin + tile <= size
AxisOrigins(size, tile, margin, spacing) ==
    LET n == Cardinality({k \in 0..size :
                             margin + k * (tile + spacing) + tile <= size})
    IN  [k \in 1..n |-> margin + (k - 1) * (tile + spacing)]

\* C2: iter_image_tiles enumerates, row-major (outer y, inner x), exactly the
\* origins y = m, m+(th+s), ... with y + th <= H and x = m, m+(tw+s), ... with
\* x + tw <= W; no enumerated rectangle extends past the right or bottom edge.
C2_SliceWithinSheet ==
    Returned("iter_image_tiles") =>
        LET ys == AxisOrigins(call.height, call.tileheight, call.margin, call.spacing)
            xs == AxisOrigins(call.width, call.tilewidth, call.margin, call.spacing)
        IN  /\ Len(ret.val) = Len(ys) * Len(xs)
            /\ \A r \in 1..Len(ys), c \in 1..Len(xs) :
                  ret.val[(r - 1) * Len(xs) + c] = <<ys[r], xs[c]>>
            /\ \A k \in 1..Len(ret.val) :
                  /\ ret.val[k][1] + call.tileheight <= call.height
                  /\ ret.val[k][2] + call.tilewidth <= call.width

\* C3 as stated: the 130 x 64 sheet (tiles 32 x 32, margin 1, spacing 2) slices
\* into exactly 6 origins, 2 rows of 3 columns, the first (x=1, y=1) and the
\* second (x=35, y=1).
C3_ExampleSixOrigins ==
    (Returned("iter_image_tiles") /\ call = ExampleSheet) =>
        /\ Len(ret.val) = 6
        /\ ret.val[1] = <<1, 1>>
        /\ ret.val[2] = <<1, 35>>

\* C3 as amended: that sheet slices into exactly 3 origins, 1 row of 3 columns,
\* in order (x=1, y=1), (x=35, y=1), (x=69, y=1): a second row would start at
\* y = 35 and end at 67, below the sheet's 64 rows.
C3_ExampleThreeOrigins ==
    (Returned("iter_image_tiles") /\ call = ExampleSheet) =>
        ret.val = <<(<<1, 1>>), (<<1, 35>>), (<<1, 69>>)>>

\* the example sheet was sliced
C3_Witness ==
    /\ Returned("iter_image_tiles")
    /\ call = ExampleSheet
    /\ Len(ret.val) > 0

\* C7: unpack_gids fails for every encoding label other than "base64" and
\* "csv", and for every compression label other than "gzip", "zlib" or absent,
\* whichever encoding label it comes with; it returns no gid list in those
\* cases.
C7_UnsupportedLabelsFail ==
    (/\ Returned("unpack_gids")
     /\ \/ call.encoding \notin {"base64", "csv", NoStr}
        \/ /\ call.encoding # NoStr
           /\ call.compression \notin {"gzip", "zlib", NoStr}) => ~ret.ok

\* the decoded and decompressed bytes of a base64 call, from how its text was
\* made: the bytes as written when no compression is declared, the payload
\* when the declared compression is the one the text was packed with
DecodedBytes ==
    IF call.compression = NoStr THEN Pack(call.wrap, call.payload)
    ELSE call.payload

DigitChar == <<"0", "1", "2", "3", "4", "5", "6", "7", "8", "9">>

RECURSIVE Decimal(_)
\* the decimal digits of a natural number
Decimal(n) ==
    IF n < 10 THEN <<DigitChar[n + 1]>>
    ELSE Decimal(n \div 10) \o <<DigitChar[(n % 10) + 1]>>

RECURSIVE CsvJoin(_)
\* ",".join of the decimal forms of a non-empty sequence of numbers
CsvJoin(ints) ==
    IF Len(ints) = 1 THEN Decimal(ints[1])
    ELSE Decimal(ints[1]) \o <<",">> \o CsvJoin(Tail(ints))

\* the integer sequences whose csv form the texts of the model can hold
CsvInts ==
    {<<1, 2, 3, 0, 5>>} \cup (UNION {[1..k -> 0..22] : k \in 1..2})
        \cup {<<n>> : n \in 0..222}

\* C8: with encoding "base64", decoded and decompressed bytes b of length 4n
\* give exactly n gids in order, gid i = b[4i] + 256 b[4i+1] + 65536 b[4i+2]
\* + 16777216 b[4i+3] (stated on the two 16-bit halves of the gid); with
\* encoding "csv", a text of n comma-separated integers gives those n integers
\* in order.
C8_UnpackResult ==
    Returned("unpack_gids") =>
        /\ (/\ call.encoding = "base64"
            /\ call.text.kind = "b64"
            /\ call.compression \in {NoStr, call.wrap}
            /\ Len(DecodedBytes) % 4 = 0) =>
               /\ ret.ok
               /\ ret.val.t = "list"
               /\ Len(ret.val.items) = Len(DecodedBytes) \div 4
               /\ \A i \in 0..(Len(ret.val.items) - 1) :
                     /\ BitsValue(ret.val.items[i + 1], 0, 15)
                            = DecodedBytes[4 * i + 1] + 256 * DecodedBytes[4 * i + 2]
                     /\ BitsValue(ret.val.items[i + 1], 16, 31)
                            = DecodedBytes[4 * i + 3] + 256 * DecodedBytes[4 * i + 4]
        /\ (call.encoding = "csv" /\ call.text.kind = "chars") =>
               \A ints \in CsvInts :
                   call.text.chars = CsvJoin(ints) =>
                       /\ ret.ok
                       /\ ret.val.t = "list"
                       /\ Len(ret.val.items) = Len(ints)
                       /\ \A k \in 1..Len(ints) :
                             /\ ret.val.items[k][31] = 0
                             /\ WordToNat(ret.val.items[k]) = ints[k]

\* two gids with unequal bytes came out of a zlib-packed base64 payload
C8_Witness ==
    /\ Returned("unpack_gids")
    /\ call.encoding = "base64"
    /\ call.compression = "zlib"
    /\ call.wrap = "zlib"
    /\ call.payload = <<1, 200, 200, 1, 200, 1, 1, 1>>
    /\ ret.ok
    /\ Len(ret.val.items) = 2

\* C9: for width >= 1, height >= 0 and a flat g of length width * height,
\* reshape_data(g, width) is exactly height rows of exactly width elements,
\* row r, column c being g[r * width + c].
C9_Reshape ==
    (Returned("reshape_data") /\ Len(call.gids) % call.width = 0) =>
        /\ Len(ret.val) = Len(call.gids) \div call.width
        /\ \A r \in 0..(Len(ret.val) - 1) :
              /\ Len(ret.val[r + 1]) = call.width
              /\ \A c \in 0..(call.width - 1) :
                    ret.val[r + 1][c + 1] = call.gids[r * call.width + c + 1]

\* a 2 x 3 grid with unequal cells was reshaped
C9_Witness ==
    /\ Returned("reshape_data")
    /\ call.width = 3
    /\ call.gids = <<1, 2, 2, 2, 1, 1>>
    /\ Len(ret.val) = 2

\* the failures the queries document, both raised as ValueError
InvalidInput(r) == ~r.ok /\ r.exc = "ValueError" /\ r.arg = "must be non-negative"

NotFound(r) ==
    /\ ~r.ok
    /\ r.exc = "ValueError"
    /\ r.arg \in {"Layer not found", "Tile coordinates are invalid",
                  "Tileset not found", "Tile GID not found"}

IsNat(v) == v.t = "int" /\ v.v >= 0

\* C5: get_tile_gid fails with InvalidInput when x, y or layer is negative or
\* not a number; with NotFound when layer is past the map's layers or (x, y) is
\* outside that layer's data grid; for every other input it returns the value
\* at row y, column x of that layer's data.  No input fails in any other way.
C5_GetTileGidErrorSurface ==
    Returned("get_tile_gid") =>
        IF ~(IsNat(call.x) /\ IsNat(call.y) /\ IsNat(call.layer))
        THEN InvalidInput(ret)
        ELSE IF call.layer.v >= Len(map.layers) THEN NotFound(ret)
        ELSE LET l == map.layers[call.layer.v + 1]
                 inside == /\ "data" \in DOMAIN l
                           /\ l.data.t = "list"
                           /\ call.y.v < Len(l.data.items)
                           /\ call.x.v < Len(l.data.items[call.y.v + 1])
             IN  IF inside
                 THEN ret.ok /\ ret.val = l.data.items[call.y.v + 1][call.x.v + 1]
                 ELSE NotFound(ret)

\* C6: get_tileset_from_gid(gid) returns the tileset with the greatest
\* firstgid <= gid, in whatever order the tilesets were added, and fails with
\* NotFound when no tileset has firstgid <= gid.
C6_TilesetFromGid ==
    Returned("get_tileset_from_gid") =>
        LET owners == {k \in 1..Len(map.tilesets) :
                          map.tilesets[k].firstgid.v <= call.gid}
        IN  IF owners = {} THEN NotFound(ret)
            ELSE /\ ret.ok
                 /\ ret.val \in {map.tilesets[k] : k \in owners}
                 /\ \A k \in owners :
                       map.tilesets[k].firstgid.v <= ret.val.firstgid.v

\* the decimal form of an integer
Numeral(n) == IF n < 0 THEN <<"-">> \o Decimal(0 - n) ELSE Decimal(n)

\* C4: a Tileset tag with source = S and firstgid = F registers, when it closes
\* inside the Map, a Tileset whose firstgid is F, whatever firstgid the
\* external file declares and whatever children its tileset has.
C4_ExternalTilesetFirstgid ==
    [][\A F \in 1..9 :
          (/\ pc = "parsing" /\ pc' = "parsing"
           /\ Len(frames) = 1 /\ Len(frames') = 1
           /\ Len(frames[1].stack) = 2 /\ Len(frames'[1].stack) = 1
           /\ frames[1].stack[1].type = "Map"
           /\ frames[1].stack[2].type = "Tileset"
           /\ "source" \in DOMAIN frames[1].stack[2].attrib
           /\ "firstgid" \in DOMAIN frames[1].stack[2].attrib
           /\ frames[1].stack[2].attrib.firstgid = Numeral(F))
          => LET registered == frames'[1].stack[1].obj.tilesets
             IN  /\ registered # <<>>
                 /\ registered[Len(registered)].firstgid = PyInt(F)]_vars

\* the numbers an attribute of the documents may declare
Declared == (-9)..9

\* the tokens of the open Object elements
ObjectTokens ==
    {t \in UNION {{frames[f].stack[k] : k \in 1..Len(frames[f].stack)} :
                     f \in 1..Len(frames)} : t.type = "Object"}

\* value is the number the tag declares under key, or None where it has none
StoredAsDeclared(attrib, key, value) ==
    IF key \in DOMAIN attrib
    THEN \E n \in Declared : attrib[key] = Numeral(n) /\ value = PyFloat(n)
    ELSE value = None

\* C10: under load_tmx an Object tag declaring y = Y and a non-zero height = H
\* is stored with y = Y - H and height = H; one whose height is 0 or absent
\* keeps its declared y; x, width and height are stored as declared.
C10_ObjectYInversion ==
    \A t \in ObjectTokens :
        /\ StoredAsDeclared(t.attrib, "x", t.obj.x)
        /\ StoredAsDeclared(t.attrib, "width", t.obj.width)
        /\ StoredAsDeclared(t.attrib, "height", t.obj.height)
        /\ IF /\ "height" \in DOMAIN t.attrib
              /\ t.attrib.height # Numeral(0)
              /\ "y" \in DOMAIN t.attrib
           THEN \E Y \in Declared, H \in Declared :
                    /\ t.attrib.y = Numeral(Y)
                    /\ t.attrib.height = Numeral(H)
                    /\ t.obj.y = PyFloat(Y - H)
           ELSE StoredAsDeclared(t.attrib, "y", t.obj.y)

\* an Object with y = 5 and height = 2 is held with y = 3, a shape already
\* closed inside it
C10_Witness ==
    \E t \in ObjectTokens :
        /\ {"y", "height", "x", "width"} \subseteq DOMAIN t.attrib
        /\ t.attrib.y = Numeral(5)
        /\ t.attrib.height = Numeral(2)
        /\ t.obj.y = PyFloat(3)
        /\ t.obj.height = PyFloat(2)
        /\ t.obj.shapes # <<>>

\* the tag names start has a branch for
RecognizedTags ==
    {"Data", "Ellipse", "Grid", "Group", "Image", "Imagelayer", "Layer", "Map",
     "Object", "Objectgroup", "Point", "Polygon", "Polyline", "Properties",
     "Property", "Tile", "Text", "Tileset"}

\* the paths end has a branch for
ReducerPaths ==
    {"Data.Tile", "Group.Layer", "Group.Objectgroup", "Imagelayer.Image",
     "Layer.Data", "Layer.Properties", "Map", "Map.Group", "Map.Imagelayer",
     "Map.Layer", "Map.Objectgroup", "Map.Properties", "Map.Tileset",
     "Object.Ellipse", "Object.Point", "Object.Properties", "Object.Polygon",
     "Object.Polyline", "Objectgroup.Object", "Object.Text",
     "Properties.Property", "Tileset.Grid", "Tileset.Image",
     "Tileset.Properties", "Tile.Properties", "Tile.Image", "Tileset",
     "Tileset.Tile"}

\* the load has failed with exception exc
Aborted(exc) == pc = "raised" /\ ~ret.ok /\ ret.exc = exc

\* C11: the start of an unrecognized tag, the end of a parent.child pair
\* outside the reducer table, the end of a Grid that is not orthogonal inside
\* a Tileset, and the end of a Tile inside a Data each abort the load at that
\* event, so that it returns no Map; the error of an unrecognized tag names
\* the tag, that of an unmatched pair names the path.
C11_FatalRejection ==
    element # None =>
        /\ (element.event = "start" /\ element.name \notin RecognizedTags)
               => Aborted("ValueError") /\ ret.arg = element.name
        /\ (element.event = "end" /\ element.path \notin ReducerPaths)
               => Aborted("ValueError") /\ ret.arg = element.path
        /\ (/\ element.event = "end"
            /\ element.path = "Tileset.Grid"
            /\ \/ "orientation" \notin DOMAIN element.attrib
               \/ element.attrib.orientation # "orthogonal")
               => Aborted("AssertionError")
        /\ (element.event = "end" /\ element.path = "Data.Tile")
               => Aborted("MasonException")

\* a hexagonal Grid closed inside a Tileset and the load failed
C11_Witness ==
    /\ element # None
    /\ element.event = "end"
    /\ element.path = "Tileset.Grid"
    /\ element.attrib.orientation = "hexagonal"
    /\ Aborted("AssertionError")


\* the four lookups of C12
Lookups == {"get_tile_gid", "get_tile_image", "get_tile_image_by_gid",
            "get_object_by_name"}

\* a step in which one of the lookups is called and raises
FailingLookup ==
    /\ pc = "ready"
    /\ pc' = "returned"
    /\ call'.fn \in Lookups
    /\ ~ret'.ok

\* C12: whenever get_tile_gid, get_tile_image, get_tile_image_by_gid or
\* get_object_by_name fails, the Map's layers, tilesets, images and properties
\* are exactly what they were before the call, and every later lookup returns
\* what it would have returned had the failing call never happened.
C12_QueryErrorsLeaveModel ==
    [][FailingLookup =>
          /\ map'.layers = map.layers
          /\ map'.tilesets = map.tilesets
          /\ map'.images = map.images
          /\ map'.properties = map.properties
          /\ \A gid \in LookupGids :
                get_tile_image_by_gid(map', gid) = get_tile_image_by_gid(map, gid)
          /\ \A name \in LookupNames :
                get_object_by_name(map', name) = get_object_by_name(map, name)
          /\ \A x \in QueryArgs, layer \in QueryArgs :
                get_tile_image(map', x, x, layer) = get_tile_image(map, x, x, layer)]_vars

\* a lookup by gid has failed on a map that holds layers and images
C12_Witness ==
    /\ Returned("get_tile_image_by_gid")
    /\ ~ret.ok
    /\ ret.exc = "ValueError"
    /\ map.images # <<>>
    /\ map.layers # <<>>

\* C14: get_tile_image_by_gid(gid) returns the entry stored for gid in the
\* image table when 0 <= gid < table length, fails with InvalidInput when gid
\* is not a number, and fails with NotFound for every other gid, every negative
\* one included: it never returns an image for a gid outside the table.
C14_ImageByGidErrorSurface ==
    Returned("get_tile_image_by_gid") =>
        IF ~("t" \in DOMAIN call.gid /\ call.gid.t = "int")
        THEN ~ret.ok /\ ret.arg = "GIDs must be expressed as a number"
        ELSE IF 0 <= call.gid.v /\ call.gid.v < Len(map.images)
             THEN ret = Return(map.images[call.gid.v + 1])
        ELSE ~ret.ok /\ ret.exc = "ValueError" /\ ret.arg = "GID not found"


\* a close event or a key press, of whatever key
Stops(event) == event.type \in {"QUIT", "KEYDOWN"}

Running == viewer.self.running

\* what a step of run does to the flags and to the loop, event by event
StopCondition ==
    /\ viewer.at = "handle_input" /\ viewer'.at = "draw" =>
          /\ viewer'.self.running =
                (Running /\ \A k \in 1..Len(viewer.queue) : ~Stops(viewer.queue[k]))
          /\ viewer'.self.dirty =
                (viewer.self.dirty
                    \/ \E k \in 1..Len(viewer.queue) :
                          viewer.queue[k].type = "VIDEORESIZE")
    /\ viewer.at # "run" /\ ~Running => ~viewer'.self.running
    /\ Running /\ ~viewer'.self.running => viewer.at = "handle_input"
    /\ viewer.at # "returned" /\ viewer'.at = "returned" =>
          viewer.at = "while" /\ ~Running
    /\ viewer.at = "while" /\ viewer'.at # "while" =>
          viewer'.at = (IF Running THEN "handle_input" ELSE "returned")
    /\ viewer'.at # "raised"

IsGid(v) == 0 \in DOMAIN v

\* the tile layers among layers and inside the groups among them
RECURSIVE AllTileLayers(_)
AllTileLayers(layers) ==
    IF Len(layers) = 0 THEN {}
    ELSE (IF Head(layers).kind = "TileLayer" THEN {Head(layers)}
          ELSE IF Head(layers).kind = "Group" THEN AllTileLayers(Head(layers).layers)
          ELSE {})
         \cup AllTileLayers(Tail(layers))

\* a row of width cells, each the no-tile value or a Tile
IsRow(row, width) ==
    /\ ~IsGid(row)
    /\ Len(row) = width
    /\ \A c \in 1..Len(row) : row[c] = None \/ row[c].kind = "Tile"

\* data is a list of rows of the map's width
IsGrid(data, width) ==
    /\ data.t = "list"
    /\ \A k \in 1..Len(data.items) : IsRow(data.items[k], width)

\* C15: after load_tmx returns successfully, every tile layer of the map,
\* whether a direct child of the map or nested inside a group, has data that is
\* a list of rows of length = map width whose cells are cached Tiles (or the
\* no-tile value); no tile layer is left holding a flat list of raw gids.
C15_TileLayersResolved ==
    Returned("load_tmx") =>
        \A tl \in AllTileLayers(ret.val.layers) : IsGrid(tl.data, ret.val.width.v)


\* the record start builds for a layer tag
LayerKind ==
    [Layer |-> "TileLayer", Objectgroup |-> "ObjectGroup",
     Imagelayer |-> "ImageLayer", Group |-> "Group"]

\* the end event just handled closed a layer of some kind inside a Group
ClosedInGroup ==
    /\ element # None
    /\ element.event = "end"
    /\ element.path \in {"Group.Layer", "Group.Objectgroup", "Group.Imagelayer",
                         "Group.Group"}

\* the object of the innermost open element
Innermost == Top.stack[Len(Top.stack)].obj

\* C16: a Group may contain a tile layer, an object group, an image layer or
\* another Group; each such child, when it closes, is appended to the enclosing
\* group's layers, after the children closed before it, and the load does not
\* fail because of the nesting.
C16_GroupsNestAnyLayer ==
    ClosedInGroup =>
        /\ pc = "parsing"
        /\ Innermost.kind = "Group"
        /\ Len(Innermost.layers) > 0
        /\ Innermost.layers[Len(Innermost.layers)].kind = LayerKind[element.name]


\* the Map being built has its token at the bottom of the map file's stack
MapOpen == pc = "parsing" /\ Len(frames[1].stack) >= 1

\* the layers of the Map being built
MapLayers == frames[1].stack[1].obj.layers

\* the paths of the layer kinds closing as direct children of the map
MapLayerPaths == {"Map.Layer", "Map.Objectgroup", "Map.Imagelayer", "Map.Group"}

\* the same layers, apart from the data the Map reducer puts into tile layers
SameLayers(a, b) ==
    /\ Len(a) = Len(b)
    /\ \A k \in 1..Len(a) :
          IF b[k].kind = "TileLayer"
          THEN a[k].kind = "TileLayer" /\ a[k].name = b[k].name
          ELSE a[k] = b[k]

\* what a step of the load does to the list of layers
LayerOrder ==
    /\ MapOpen /\ pc' = "parsing" =>
          IF element'.event = "end" /\ element'.path \in MapLayerPaths
          THEN MapLayers' = Append(MapLayers, Innermost)
          ELSE MapLayers' = MapLayers
    /\ ~MapOpen /\ pc' = "parsing" /\ Len(frames'[1].stack) >= 1 => MapLayers' = <<>>
    /\ pc = "parsing" /\ pc' = "returned" => SameLayers(ret'.val.layers, MapLayers)

\* C17: after any successful load the map's layers list contains exactly the
\* map's direct child elements of kind Layer, Objectgroup, Imagelayer and
\* Group, each exactly once, in the order in which their end tags occurred,
\* however the kinds are interleaved; tilesets and properties never appear.
C17_LayerOrderIsDocumentOrder == [][LayerOrder]_vars

\* a map is loaded whose tile layer closed before its object group
C17_Witness ==
    /\ Returned("load_tmx")
    /\ Len(ret.val.layers) = 2
    /\ ret.val.layers[1].kind = "TileLayer"
    /\ ret.val.layers[2].kind = "ObjectGroup"


\* the end event just handled closed an Image inside a Tileset, and end returned
SheetCached ==
    /\ element # None
    /\ element.event = "end"
    /\ element.path = "Tileset.Image"
    /\ pc = "parsing"

\* an attribute that is a numeral, as the number it denotes; 0 where absent
NumberOf(attrib, key) == get(attrib, key, "int", PyInt(0)).val.v

\* the attributes of the Tileset tag that brings the open tileset into the
\* map: the tag itself, or the tag that names the file it is the root of
UsageAttrib ==
    IF Len(frames) > 1 THEN Top.caller.attrib ELSE Top.stack[Len(Top.stack)].attrib

\* the origins (y, x) of the sheet just closed, in slicing order
SheetOrigins ==
    iter_image_tiles(NumberOf(element.attrib, "width"),
                     NumberOf(element.attrib, "height"),
                     Innermost.tilewidth.v, Innermost.tileheight.v,
                     Innermost.margin.v, Innermost.spacing.v)

\* the cache holds under gid the tile cut from the sheet at origin
CachedAt(gid, origin) ==
    /\ gid \in DOMAIN context.tiles
    /\ context.tiles[gid] # None
    /\ context.tiles[gid].image # None
    /\ context.tiles[gid].image.rect =
          <<origin[2], origin[1], Innermost.tilewidth.v, Innermost.tileheight.v>>

\* C18: when a tileset's Image closes, the k-th sub-rectangle (k = 0, 1, ...
\* in row-major slicing order) is in the tile cache under key F + k, F being
\* the firstgid of the Tileset tag that introduced the tileset into the map:
\* the tag itself for an inline tileset, the referencing tag for a tileset
\* pulled in through a source attribute, whatever the external file declares.
C18_SheetCachedFromUsageFirstgid ==
    SheetCached =>
        \A k \in 1..Len(SheetOrigins) :
            CachedAt(NumberOf(UsageAttrib, "firstgid") + k - 1, SheetOrigins[k])


\* the step handles the end event of a Tile inside a Tileset, and end returns
RegistersTile ==
    /\ pc = "parsing"
    /\ pc' = "parsing"
    /\ element'.event = "end"
    /\ element'.path = "Tileset.Tile"

\* the token of the tileset the closing tile is in
Enclosing == Top.stack[Len(Top.stack) - 1]

\* the firstgid of the start tag of the tileset being parsed, or of the tag
\* that references the file it is the root of; 0 where that tag has none
PendingOfOpenTileset ==
    IF Len(frames) > 1 /\ Len(Top.stack) = 2
    THEN NumberOf(Top.caller.attrib, "firstgid")
    ELSE NumberOf(Enclosing.attrib, "firstgid")

\* the tileset's own firstgid if set, the pending one of its tag otherwise
RegistrationBase ==
    IF Enclosing.obj.firstgid.v # 0 THEN Enclosing.obj.firstgid.v
    ELSE PendingOfOpenTileset

\* C19: when a Tile with local id L closes inside a Tileset, it is registered
\* in the cache under key firstgid + L, firstgid being the tileset's own if set
\* and otherwise the pending firstgid of the start tag of the tileset being
\* parsed (or of the tag that references it), never one left over from an
\* earlier, already closed tileset.
C19_TileRegistration ==
    [][RegistersTile =>
          context'.tiles =
              ((RegistrationBase + Innermost.id.v) :> Innermost) @@ context.tiles]_vars


\* the data grid of the layer tiles() was called on
TilesData == map.layers[call.layer + 1].data.items

\* the cells of the grid that hold something, as (x, y) from 0
NonEmptyCells ==
    {c \in UNION {{<<x - 1, y - 1>> : x \in 1..Len(TilesData[y])} :
                     y \in 1..Len(TilesData)} :
        CellTruthy(TilesData[c[2] + 1][c[1] + 1])}

\* yielded is one triple (x, y, tile) for every cell of the grid that holds
\* something, rows first and columns within a row
RowMajorTriples(yielded) ==
    /\ {<<yielded[k][1], yielded[k][2]>> : k \in 1..Len(yielded)} = NonEmptyCells
    /\ Len(yielded) = Cardinality(NonEmptyCells)
    /\ \A k \in 1..Len(yielded) :
          yielded[k][3] = TilesData[yielded[k][2] + 1][yielded[k][1] + 1]
    /\ \A j \in 1..Len(yielded), k \in 1..Len(yielded) :
          j < k => \/ yielded[j][2] < yielded[k][2]
                   \/ yielded[j][2] = yielded[k][2] /\ yielded[j][1] < yielded[k][1]

\* C20: on a layer whose data is a row-major grid, tiles() yields exactly one
\* triple (x, y, tile) for every cell whose content is non-empty, in row-major
\* order, and nothing for cells holding gid 0 or no tile; the layer's data is
\* unchanged by the call, so that calling it again yields the same sequence.
C20_TilesOfLayer ==
    /\ [](Returned("tiles") => ret.ok /\ RowMajorTriples(ret.val))
    /\ [][pc = "ready" /\ pc' = "returned" /\ call'.fn = "tiles" =>
             map' = map /\ TileLayer_tiles(map'.layers[call'.layer + 1]) = ret']_vars

\* tiles() has run on the second layer of a map, a grid of raw gids with empty
\* cells, and yielded its two tiles
C20_Witness ==
    /\ Returned("tiles")
    /\ call.layer = 1
    /\ TilesData = RawGrid.items
    /\ ret.val = <<(<<1, 0, PyInt(1)>>), (<<0, 1, PyInt(2)>>)>>


\* the tokens of a stack without the objects they carry
Shape(stack) == [k \in 1..Len(stack) |-> [type |-> stack[k].type, attrib |-> stack[k].attrib]]

\* the frames below the innermost one
Outer(fs) == SubSeq(fs, 1, Len(fs) - 1)

\* what an event of the load does to the stack of the iter_tmx that handles it
StackDiscipline ==
    /\ pc' = "parsing" /\ element'.event = "start" /\ Len(frames') = Len(frames) =>
          /\ Shape(frames'[Len(frames)].stack) =
                Append(Shape(Top.stack),
                       [type |-> element'.name, attrib |-> element'.attrib])
          /\ SubSeq(frames'[Len(frames)].stack, 1, Len(Top.stack)) = Top.stack
          /\ Outer(frames') = Outer(frames)
    /\ pc' = "parsing" /\ element'.event = "start" /\ Len(frames') # Len(frames) =>
          /\ Outer(frames') = frames
          /\ frames'[Len(frames')].stack = <<>>
    /\ pc' = "parsing" /\ element'.event = "end" /\ Len(frames') = Len(frames) =>
          /\ Len(Top.stack) >= 2
          /\ Top.stack[Len(Top.stack)].type = element'.name
          /\ element'.path = Enclosing.type \o "." \o element'.name
          /\ Shape(frames'[Len(frames)].stack) =
                SubSeq(Shape(Top.stack), 1, Len(Top.stack) - 1)
          /\ SubSeq(frames'[Len(frames)].stack, 1, Len(Top.stack) - 2) =
                SubSeq(Top.stack, 1, Len(Top.stack) - 2)
          /\ Outer(frames') = Outer(frames)
    /\ pc' = "parsing" /\ element'.event = "end" /\ Len(frames') # Len(frames) =>
          /\ Len(Top.stack) = 1
          /\ element'.path = Top.stack[1].type
          /\ element'.name = Top.stack[1].type
          /\ Len(frames') = Len(frames) - 1
          /\ Outer(frames') = Outer(Outer(frames))
          /\ frames'[Len(frames')].stack =
                Append(frames[Len(frames')].stack,
                       Token(Top.caller.name, Top.caller.attrib, Top.caller.text,
                             Top.stack[1].obj))
    /\ pc = "parsing" /\ pc' = "returned" =>
          /\ Len(frames) = 1
          /\ Len(Top.stack) = 1
          /\ element'.event = "end"
          /\ element'.path = Top.stack[1].type
          /\ ret' = Return([Top.stack[1].obj EXCEPT !.layers = ret'.val.layers])

\* C21: during iter_tmx the stack holds one token per open element, in nesting
\* order: a start event pushes the element's token, an end event pops the
\* token of the element being closed and runs one reducer for it, keyed
\* parent.child while the stack is non-empty and by the tag alone when it is
\* empty, its descendants' tokens having been popped before; the last object
\* produced is the root element's, and that is what load_tmx returns.
C21_TokenStackDiscipline == [][pc = "parsing" => StackDiscipline]_vars

\* a map is loaded whose object group holds an object with a point: four
\* elements were open at once and each was closed after those inside it
C21_Witness ==
    /\ Returned("load_tmx")
    /\ element.path = "Map"
    /\ Len(ret.val.layers) = 1
    /\ ret.val.layers[1].kind = "ObjectGroup"
    /\ Len(ret.val.layers[1].objects) = 1
    /\ Len(ret.val.layers[1].objects[1].shapes) = 1


\* C23: load_tmx seeds the tile cache with 0 -> no tile, and in every state of
\* a parse, whatever tilesets it has read (inline or external, with or without
\* a firstgid, with Image or Tile children), the cache still holds the no-tile
\* value under key 0, so that a cell of raw gid 0 resolves to an empty cell.
C23_GidZeroStaysNoTile ==
    call.fn = "load_tmx" => 0 \in DOMAIN context.tiles /\ context.tiles[0] = None


\* the load_map call of the setup phase raised
SetupFailed == pc = "viewer" /\ "scan" \in DOMAIN viewer /\ ret = Raise("Exception", "load_map")

\* the setup phase: the for loop and its except clause
InSetup == viewer.at \in {"for", "except", "raise"}

\* the error has left the process with the window torn down
ErrorLeft == viewer.at = "raised" /\ viewer.window = "quit"

\* C22: when a load_map call of the setup phase raises, the window is torn
\* down before the error leaves the process, the error that leaves is the
\* one load_map raised, and run() is never entered: no further load is made
\* and running stays False. Every iteration of the loop calls load_map once,
\* with the fixed map path, so that the calls made are as many as the files
\* gone through, and as many as the scan found when run() is entered.
C22_EntryPointFailurePath ==
    /\ [](SetupFailed =>
            /\ viewer.at \in {"except", "raise", "raised"}
            /\ viewer.at = "raised" => viewer.window = "quit"
            /\ ~viewer.self.running)
    /\ [](/\ \A i \in 1..Len(viewer.loads) : viewer.loads[i] = FixedMap
          /\ Len(viewer.loads) + Len(viewer.files) = Len(viewer.scan)
          /\ ~InSetup /\ ~SetupFailed => Len(viewer.loads) = Len(viewer.scan)
          /\ ~SetupFailed /\ viewer.at # "raised" => viewer.window = "open")
    /\ [][/\ SetupFailed => ret' = ret /\ viewer'.loads = viewer.loads
                            /\ viewer'.self = viewer.self
          /\ viewer.at = "for" /\ viewer'.at # "for" => viewer'.queue = viewer.queue
          /\ viewer.at = "for" /\ viewer.files # <<>> /\ viewer'.queue = viewer.queue =>
                /\ Len(viewer'.loads) = Len(viewer.loads) + 1
                /\ viewer'.files = Tail(viewer.files)
                /\ viewer'.at \in {"for", "except"}
                /\ viewer'.at = "except" <=> SetupFailed'
                /\ viewer'.at = "for" => viewer'.self.renderer = BasicRenderer(FixedMap)
          /\ viewer.at # "for" => viewer'.loads = viewer.loads
          /\ viewer.at = "for" /\ viewer'.at = "run" => viewer.files = <<>>]_vars
    /\ (SetupFailed ~> ErrorLeft)

\* C22 witness: the scan found two files, the first load succeeded, the
\* second raised, and the error has left after the window was torn down
C22_Witness ==
    /\ SetupFailed
    /\ ErrorLeft
    /\ Len(viewer.scan) = 2
    /\ viewer.loads = <<FixedMap, FixedMap>>
    /\ viewer.self.renderer = BasicRenderer(FixedMap)
    /\ ~viewer.self.running

\* C24: draw() is only invoked with a renderer loaded: whenever the entry
\* point is in run(), a load_map call has completed and renderer is not None.
C24_DrawOnlyWithRenderer ==
    pc = "viewer" /\ viewer.at \in {"while", "handle_input", "draw", "flip"} =>
        /\ viewer.self.renderer # None
        /\ "loads" \in DOMAIN viewer => Len(viewer.loads) >= 1

=============================================================================
